---- MODULE Spec2Model ----
(***************************************************************************)
(* The botmanager orchestrator: workload queue (fetch & lock, complete,    *)
(* fail), process-version activation, execution ledger (trigger, status    *)
(* update) and scheduler loop, modelled from                               *)
(* backend/app/services/workload_service.py, api/v1/workload.py,           *)
(* services/process_service.py, services/execution_service.py,             *)
(* services/scheduler.py and api/v1/governance.py.                         *)
(* Tables, columns and enum members are taken as the services and schemas  *)
(* use them; app/models is older than the services.                        *)
(***************************************************************************)
EXTENDS Integers, Sequences, FiniteSets, TLC

\* ------------------------------------------------------------------ bounds
MaxItems == 2
MaxRetryItems == 1
MaxOrderItems == 3
MaxTime == 1
MaxOrderTime == 2
NumCallers == 2
MaxRetriesInput == 2
LeaseDuration == 1
MaxVersions == 3
MaxSchedules == 2
MaxLedgerItems == 1
MaxLedgerExecucoes == 1
MaxExecucoes == 2
MaxPassTime == 2
MaxPlans == 1
MaxAgentes == 2
MaxBeatAgentes == 1
MaxTenantItems == 2
MaxTenantRows == 1
MaxAgentTime == 6
MaxExcecoes == 3
MaxOtherExcecoes == 1
MaxTasks == 2

\* ------------------------------------------------------------- value sets
Tenants == {"tA", "tB"}
Queues == {"q1"}
Agents == {"a1", "a2"}
Callers == 1..NumCallers
NoAgent == "none"
NoTime == -1

\* PriorityEnum: member name |-> stored value (the String(20) column holds
\* the value of the str-Enum), written as ASCII codes so that the column
\* ordering of ORDER BY priority DESC is the ordering of the strings.
PriorityEnum == {"LOW", "NORMAL", "HIGH", "CRITICAL"}

PriorityColumn(p) ==
    CASE p = "LOW" -> <<108, 111, 119>>
      [] p = "NORMAL" -> <<110, 111, 114, 109, 97, 108>>
      [] p = "HIGH" -> <<104, 105, 103, 104>>
      [] p = "CRITICAL" -> <<99, 114, 105, 116, 105, 99, 97, 108>>

\* StatusItemFilaEnum as the services use it
PENDING == "pending"
RUNNING == "running"
COMPLETED == "completed"
FAILED == "failed"
RETRY == "retry"

\* StatusExecucaoEnum (running, completed and failed are spelled as above)
QUEUED == "queued"
CANCELLED == "cancelled"
TIMEOUT == "timeout"
StatusExecucaoEnum == {QUEUED, RUNNING, COMPLETED, FAILED, CANCELLED, TIMEOUT}

\* TriggerTypeEnum as the services use it
CRON == "cron"

\* cron expressions: every minute, every second minute, and a text croniter
\* rejects; the clock counts minutes
CronExpressions == {"* * * * *", "*/2 * * * *", "bad"}
NoProcess == "none"
NoCron == "unset"

\* models.core.StatusAgenteEnum
ONLINE == "online"
OFFLINE == "offline"
BUSY == "busy"
MAINTENANCE == "maintenance"
StatusAgenteEnum == {ONLINE, OFFLINE, BUSY, MAINTENANCE}

\* agent names, and extra_data: a dict over two keys, Absent where the key is
\* not in it
AgentNames == {"bot-1", "bot-2"}
MetaKeys == {"region", "env"}
Absent == "absent"
NoData == [k \in MetaKeys |-> Absent]
NoName == "none"
NoStatus == "none"

\* the window of is_online, in minutes (the clock of the registry counts
\* minutes)
OnlineWindow == 5

\* the worker: the items it receives have ids 1..MaxTasks; an item linked to
\* an execution carries an execucao_id above them, one that is not carries 0;
\* script_name in the payload names a script that exists, names one that
\* does not, or is not a string
TaskIds == 1..MaxTasks
ExecIds == 1..(2 * MaxTasks)
NoTask == 0
ScriptNames == {"main.py", "absent.py", "<number>"}
RunOutcomes == {"success", "nonzero", "timeout", "error"}

\* the reference of an item (ItemFilaCreate.reference): an external id, or none
References == {"r1", "r2"}
NoRef == "none"

\* TipoExcecaoEnum
TipoExcecaoEnum == {"business", "system", "application"}
SYSTEM == "system"

\* processes (rows of table processo) and their tenants
Processos == {"p1", "p2"}
VersionNames == {"1.0.0", "2.0.0"}

ProcessoTenant(p) == IF p = "p1" THEN "tA" ELSE "tB"

VARIABLES
    items,      \* table item_fila: sequence of rows, the row id is the index
    rowLock,    \* row id |-> caller holding its FOR UPDATE lock, 0 if none
    pc,         \* caller |-> "idle" | "locked" (between SELECT and COMMIT)
    sel,        \* caller |-> arguments and selected row of its open claim
    now,        \* the clock
    versoes,    \* table versao_processo: sequence of rows
    fails,      \* history: row id |-> SYSTEM failures reported so far while the
                \* row was RUNNING, -1 once anything else was reported on it
    lastOp,     \* history: the operation that produced this state
    act,        \* caller |-> its open activate_version transaction
    processos,  \* table processo: process |-> row
    execucoes,  \* table execucao: sequence of rows, the row id is the index
    agendamentos, \* table agendamento: sequence of rows
    sched,      \* the scheduler task: its pass and the schedules left in it
    agentes,    \* table agente: sequence of rows, the row id is the index
    reg,        \* caller |-> its open create_agent or update_agent transaction
    resp,       \* history: the body of the last response of the agents API
    app,        \* the orchestrator: whether it runs, and its background tasks
    excecoes,   \* table excecao: sequence of rows, the row id is the index
    post,       \* per caller: the POST /workload/items request it has in progress
    worker      \* the worker process: its session, its current execution, the
                \* run_wrapper threads and the reports it has sent

\* the tables and tasks of the execution ledger and the scheduler
ledger == <<act, processos, execucoes, agendamentos, sched, app>>

\* the agent registry and what its API answered
registry == <<agentes, reg, resp>>

\* the tables and requests around the queue
annex == <<excecoes, post, worker>>

vars == <<items, rowLock, pc, sel, now, versoes, fails, lastOp,
          act, processos, execucoes, agendamentos, sched, agentes, reg, resp, app,
          excecoes, post, worker>>

NoItem ==
    [tenant_id |-> "none", queue_name |-> "none", priority |-> "NORMAL",
     status |-> "none", retry_count |-> 0, max_retries |-> 0,
     deferred_until |-> NoTime, locked_by |-> NoAgent, locked_at |-> NoTime,
     locked_until |-> NoTime, created_at |-> NoTime, completed_at |-> NoTime,
     execucao_id |-> 0, reference |-> NoRef]

NoSel == [item |-> 0, tenant_id |-> "none", queue_name |-> "none", agent_id |-> NoAgent]

\* name: the queue name or the process (for update_status: the status the
\* execution had); id: the row; tipo: the failure kind (for update_status:
\* the status requested); prev: the version that was active before an
\* activation (for the scheduler: next_run before the step); pre: the item
\* row before the operation
Op(op, t, name, a, id, k, prev, pre, ret) ==
    [op |-> op, tenant_id |-> t, name |-> name, agent_id |-> a,
     id |-> id, tipo |-> k, prev |-> prev, pre |-> pre, ret |-> ret]

\* the scheduler between two passes.  time: the clock the pass read; due: the
\* schedules it has still to process; history of the last pass: seen, the
\* schedules it selected; done, those _trigger_and_update was called for;
\* failed, those whose processing raised
NoPass ==
    [running |-> FALSE, time |-> NoTime, due |-> {}, seen |-> {}, done |-> {},
     failed |-> {}]

ItemIds == 1..Len(items)
VersaoIds == 1..Len(versoes)

\* ---------------------------------------------------------- string order
RECURSIVE StrLess(_, _)
StrLess(a, b) ==
    IF b = <<>> THEN FALSE
    ELSE IF a = <<>> THEN TRUE
    ELSE IF Head(a) # Head(b) THEN Head(a) < Head(b)
    ELSE StrLess(Tail(a), Tail(b))

\* ------------------------------------------------------------ create_item
NewItem(t, q, p, m, d, e) ==
    [tenant_id |-> t, queue_name |-> q, priority |-> p,
     status |-> PENDING, retry_count |-> 0, max_retries |-> m,
     deferred_until |-> d, locked_by |-> NoAgent, locked_at |-> NoTime,
     locked_until |-> NoTime, created_at |-> now, completed_at |-> NoTime,
     execucao_id |-> e, reference |-> NoRef]

\* WorkloadService.create_item: deferred_until and execucao_id of the request
\* are not copied
create_item(t, q, p, m) ==
    /\ items' = Append(items, NewItem(t, q, p, m, NoTime, 0))
    /\ rowLock' = Append(rowLock, 0)
    /\ fails' = Append(fails, 0)
    /\ lastOp' = Op("create", t, q, NoAgent, Len(items) + 1, "none", 0, NoItem, "created")
    /\ UNCHANGED <<pc, sel, now, versoes>>
    /\ UNCHANGED ledger
    /\ UNCHANGED registry
    /\ UNCHANGED annex

\* POST /workload/items with no reference: every request field is stored,
\* execucao_id (0: not given) included
api_create_item(t, q, p, m, d, e) ==
    /\ items' = Append(items, NewItem(t, q, p, m, d, e))
    /\ rowLock' = Append(rowLock, 0)
    /\ fails' = Append(fails, 0)
    /\ lastOp' = Op("create", t, q, NoAgent, Len(items) + 1, "none", 0, NoItem, "created")
    /\ UNCHANGED <<pc, sel, now, versoes>>
    /\ UNCHANGED ledger
    /\ UNCHANGED registry
    /\ UNCHANGED annex

\* POST /workload/items, in the two steps the handler awaits: the query for
\* an open item of the same reference, then the insert and its commit
NoPost == [pc |-> "idle", tenant_id |-> "none", queue_name |-> "none", reference |-> NoRef]

\* the rows of the duplicate query: same queue, reference and tenant, status
\* PENDING or RUNNING
OpenWithReference(t, q, r) ==
    {i \in 1..Len(items) :
        /\ items[i].queue_name = q
        /\ items[i].reference = r
        /\ items[i].tenant_id = t
        /\ items[i].status \in {PENDING, RUNNING}}

\* a request without a reference skips the query; scalar_one_or_none raises
\* MultipleResultsFound on more than one row, and one row is answered 409
post_check(c, t, q, r) ==
    /\ post[c].pc = "idle"
    /\ LET found == IF r = NoRef THEN {} ELSE OpenWithReference(t, q, r)
       IN  /\ post' = [post EXCEPT ![c] =
                   IF found = {}
                   THEN [pc |-> "checked", tenant_id |-> t, queue_name |-> q,
                         reference |-> r]
                   ELSE NoPost]
           /\ lastOp' = Op("post_check", t, q, NoAgent, 0, r, c, NoItem,
                           IF found = {} THEN "pass"
                           ELSE IF Cardinality(found) = 1 THEN "409"
                           ELSE "MultipleResultsFound")
    /\ UNCHANGED <<items, rowLock, pc, sel, now, versoes, fails>>
    /\ UNCHANGED ledger
    /\ UNCHANGED registry
    /\ UNCHANGED <<excecoes, worker>>

Referenced(it, r) == [it EXCEPT !.reference = r]

post_commit(c, p, m) ==
    /\ post[c].pc = "checked"
    /\ items' = Append(items, Referenced(NewItem(post[c].tenant_id, post[c].queue_name,
                                                 p, m, NoTime, 0),
                                         post[c].reference))
    /\ rowLock' = Append(rowLock, 0)
    /\ fails' = Append(fails, 0)
    /\ post' = [post EXCEPT ![c] = NoPost]
    /\ lastOp' = Op("create", post[c].tenant_id, post[c].queue_name, NoAgent,
                    Len(items) + 1, post[c].reference, c, NoItem, "created")
    /\ UNCHANGED <<pc, sel, now, versoes>>
    /\ UNCHANGED ledger
    /\ UNCHANGED registry
    /\ UNCHANGED <<excecoes, worker>>

\* ---------------------------------------------------------- get_next_item
\* WHERE clause of the candidate query
\* the claim query without its tenant filter
MatchesAnyTenant(it, t, q) ==
    /\ it.queue_name = q
    /\ it.status = PENDING
    /\ it.locked_by = NoAgent

Matches(it, t, q) ==
    /\ it.tenant_id = t
    /\ it.queue_name = q
    /\ it.status = PENDING
    /\ it.locked_by = NoAgent

\* a query with no row lock: every row is read
NoRowLock(i) == TRUE

\* FOR UPDATE SKIP LOCKED: rows locked by an open transaction are skipped
SkipLocked(i) == rowLock[i] = 0

Candidates(t, q) == {i \in ItemIds : Matches(items[i], t, q) /\ SkipLocked(i)}

\* ORDER BY priority DESC, created_at DESC
OrderedNewestFirst(x, y) ==
    \/ StrLess(PriorityColumn(y.priority), PriorityColumn(x.priority))
    \/ /\ x.priority = y.priority
       /\ x.created_at > y.created_at

\* ORDER BY priority DESC, created_at ASC
OrderedBefore(x, y) ==
    \/ StrLess(PriorityColumn(y.priority), PriorityColumn(x.priority))
    \/ /\ x.priority = y.priority
       /\ x.created_at < y.created_at

\* LIMIT 1: any row that no other candidate precedes
FirstRows(t, q) ==
    {i \in Candidates(t, q) :
        \A j \in Candidates(t, q) : ~OrderedBefore(items[j], items[i])}

\* the SELECT of get_next_item finds no row: the method returns None
get_next_item_none(c, t, q, a) ==
    /\ pc[c] = "idle"
    /\ Candidates(t, q) = {}
    /\ lastOp' = Op("claim", t, q, a, 0, "none", 0, NoItem, "none")
    /\ UNCHANGED <<items, rowLock, pc, sel, now, versoes, fails>>
    /\ UNCHANGED ledger
    /\ UNCHANGED registry
    /\ UNCHANGED annex

\* the SELECT of get_next_item finds a row and locks it
get_next_item_select(c, t, q, a) ==
    /\ pc[c] = "idle"
    /\ \E i \in FirstRows(t, q) :
        /\ rowLock' = [rowLock EXCEPT ![i] = c]
        /\ sel' = [sel EXCEPT ![c] = [item |-> i, tenant_id |-> t, queue_name |-> q, agent_id |-> a]]
        /\ lastOp' = Op("select", t, q, a, i, "none", 0, items[i], "locked")
    /\ pc' = [pc EXCEPT ![c] = "locked"]
    /\ UNCHANGED <<items, now, versoes, fails>>
    /\ UNCHANGED ledger
    /\ UNCHANGED registry
    /\ UNCHANGED annex

Locked(it, a) ==
    [it EXCEPT !.status = RUNNING, !.locked_by = a, !.locked_at = now,
               !.retry_count = it.retry_count + 1]

\* the update and COMMIT of get_next_item
get_next_item_commit(c) ==
    /\ pc[c] = "locked"
    /\ LET i == sel[c].item IN
        /\ items' = [items EXCEPT ![i] = Locked(items[i], sel[c].agent_id)]
        /\ rowLock' = [rowLock EXCEPT ![i] = 0]
        /\ lastOp' = Op("claim", sel[c].tenant_id, sel[c].queue_name, sel[c].agent_id,
                        i, "none", 0, items[i], "item")
    /\ pc' = [pc EXCEPT ![c] = "idle"]
    /\ sel' = [sel EXCEPT ![c] = NoSel]
    /\ UNCHANGED <<now, versoes, fails>>
    /\ UNCHANGED ledger
    /\ UNCHANGED registry
    /\ UNCHANGED annex

\* ------------------------------------------------- POST /workload/get-next
\* the update of the endpoint: status and locked_until, nothing else
ApiLocked(it) == [it EXCEPT !.status = RUNNING, !.locked_until = now]

\* The endpoint runs the query of get_next_item (same WHERE, ORDER BY, LIMIT
\* and FOR UPDATE SKIP LOCKED) and commits in the same request; the request
\* names no agent.
api_get_next_item(t, q) ==
    /\ IF Candidates(t, q) = {}
       THEN /\ UNCHANGED items
            /\ lastOp' = Op("api_claim", t, q, NoAgent, 0, "none", 0, NoItem, "none")
       ELSE \E i \in FirstRows(t, q) :
            /\ items' = [items EXCEPT ![i] = ApiLocked(items[i])]
            /\ lastOp' = Op("api_claim", t, q, NoAgent, i, "none", 0, items[i], "item")
    /\ UNCHANGED <<rowLock, pc, sel, now, versoes, fails>>
    /\ UNCHANGED ledger
    /\ UNCHANGED registry
    /\ UNCHANGED annex

\* ---------------------------------------------------------- complete_item
\* SELECT ... WHERE id = item_id AND tenant_id = tenant_id
Lookup(t, id) == {i \in ItemIds : i = id /\ items[i].tenant_id = t}

Completed(it) ==
    [it EXCEPT !.status = COMPLETED, !.completed_at = now, !.locked_by = NoAgent]

complete_item(t, id) ==
    /\ IF Lookup(t, id) # {}
       THEN /\ rowLock[id] = 0
            /\ items' = [items EXCEPT ![id] = Completed(items[id])]
            /\ fails' = [fails EXCEPT ![id] = -1]
            /\ lastOp' = Op("complete", t, "none", NoAgent, id, "none", 0, items[id], "done")
       ELSE /\ UNCHANGED <<items, fails>>
            /\ lastOp' = Op("complete", t, "none", NoAgent, id, "none", 0, NoItem, "absent")
    /\ UNCHANGED <<rowLock, pc, sel, now, versoes>>
    /\ UNCHANGED ledger
    /\ UNCHANGED registry
    /\ UNCHANGED annex

\* -------------------------------------------------------------- fail_item
\* the Excecao row of a failure report
NovaExcecao(t, id, tipo) == [tenant_id |-> t, item_fila_id |-> id, tipo |-> tipo]

\* the report written over the newest row of the table
LoggedOver(log, t, id, tipo) ==
    IF log = <<>> THEN <<NovaExcecao(t, id, tipo)>>
    ELSE [log EXCEPT ![Len(log)] = NovaExcecao(t, id, tipo)]

\* session.add(nova_excecao): one INSERT
Logged(log, t, id, tipo) == Append(log, NovaExcecao(t, id, tipo))

\* every SYSTEM failure is retried, whatever retry_count is
WillRetryAlways(it, tipo) == tipo = SYSTEM

\* retry_count < max_retries in place of <=
WillRetryStrict(it, tipo) == tipo = SYSTEM /\ it.retry_count < it.max_retries

WillRetry(it, tipo) == tipo = SYSTEM /\ it.retry_count <= it.max_retries

Failed(it, tipo) ==
    IF WillRetry(it, tipo)
    THEN [it EXCEPT !.status = PENDING, !.locked_by = NoAgent]
    ELSE [it EXCEPT !.status = FAILED, !.completed_at = now]

StatusFinal(it, tipo) == IF WillRetry(it, tipo) THEN RETRY ELSE FAILED

fail_item(t, id, tipo) ==
    /\ IF Lookup(t, id) # {}
       THEN /\ rowLock[id] = 0
            /\ items' = [items EXCEPT ![id] = Failed(items[id], tipo)]
            /\ fails' = [fails EXCEPT ![id] =
                            IF tipo = SYSTEM /\ items[id].status = RUNNING /\ fails[id] >= 0
                            THEN fails[id] + 1 ELSE -1]
            /\ excecoes' = Logged(excecoes, t, id, tipo)
            /\ lastOp' = Op("fail", t, "none", NoAgent, id, tipo, 0, items[id],
                            StatusFinal(items[id], tipo))
       ELSE /\ UNCHANGED <<items, fails, excecoes>>
            /\ lastOp' = Op("fail", t, "none", NoAgent, id, tipo, 0, NoItem, FAILED)
    /\ UNCHANGED <<rowLock, pc, sel, now, versoes>>
    /\ UNCHANGED ledger
    /\ UNCHANGED registry
    /\ UNCHANGED <<post, worker>>

\* ------------------------------------------------------------------ clock
Tick(T) ==
    /\ now < T
    /\ now' = now + 1
    /\ lastOp' = Op("tick", "none", "none", NoAgent, 0, "none", 0, NoItem, "none")
    /\ UNCHANGED <<items, rowLock, pc, sel, versoes, fails>>
    /\ UNCHANGED ledger
    /\ UNCHANGED registry
    /\ UNCHANGED annex

\* --------------------------------------------------------- ProcessService
\* get_process: the process of the tenant, WHERE deleted_at IS NULL
get_process(t, p) ==
    {x \in Processos :
        x = p /\ ProcessoTenant(x) = t /\ processos[x].deleted_at = NoTime}

\* the duplicate check of create_version
VersionExists(t, p, name) ==
    \E v \in VersaoIds :
        /\ versoes[v].tenant_id = t
        /\ versoes[v].processo_id = p
        /\ versoes[v].version = name

\* no version is deactivated
deactivate_no_version(vs, t, p, keep) == vs

\* _deactivate_other_versions: the rows it selects lose is_active
deactivate_other_versions(vs, t, p, keep) ==
    [v \in DOMAIN vs |->
        IF vs[v].tenant_id = t /\ vs[v].processo_id = p /\ v # keep
        THEN [vs[v] EXCEPT !.is_active = FALSE]
        ELSE vs[v]]

ActiveVersions(p) == {v \in VersaoIds : versoes[v].processo_id = p /\ versoes[v].is_active}

PrevActive(p, keep) ==
    IF ActiveVersions(p) \ {keep} = {} THEN 0
    ELSE CHOOSE v \in ActiveVersions(p) \ {keep} : TRUE

NovaVersao(t, p, name, active) ==
    [tenant_id |-> t, processo_id |-> p, version |-> name, is_active |-> active]

\* a session with autoflush: the new row is written before the SELECT of
\* _deactivate_other_versions and is deactivated with the rows it returns
CreatedFlushed(vs, t, p, name, active) ==
    IF active
    THEN deactivate_other_versions(Append(vs, NovaVersao(t, p, name, active)), t, p, 0)
    ELSE Append(vs, NovaVersao(t, p, name, active))

\* the rows after the commit of create_version: the new row is not flushed
\* when the others are deactivated (autoflush is off), so it keeps the
\* is_active it was created with
Created(vs, t, p, name, active) ==
    Append(IF active THEN deactivate_other_versions(vs, t, p, 0) ELSE vs,
           NovaVersao(t, p, name, active))

create_version(t, p, name, active) ==
    /\ get_process(t, p) # {}
    /\ ~VersionExists(t, p, name)
    /\ versoes' = Created(versoes, t, p, name, active)
    /\ lastOp' = Op("create_version", t, p, NoAgent, Len(versoes) + 1, "none",
                    PrevActive(p, 0), NoItem, "created")
    /\ UNCHANGED <<items, rowLock, pc, sel, now, fails>>
    /\ UNCHANGED ledger
    /\ UNCHANGED registry
    /\ UNCHANGED annex

\* the version row activate_version selects
FindVersion(t, p, id) ==
    {v \in VersaoIds : v = id /\ versoes[v].tenant_id = t /\ versoes[v].processo_id = p}

Activated(vs, t, p, id) ==
    [deactivate_other_versions(vs, t, p, id) EXCEPT ![id].is_active = TRUE]

activate_version(t, p, id) ==
    /\ IF get_process(t, p) # {} /\ FindVersion(t, p, id) # {}
       THEN /\ versoes' = Activated(versoes, t, p, id)
            /\ lastOp' = Op("activate", t, p, NoAgent, id, "none", PrevActive(p, id),
                            NoItem, "ok")
       ELSE /\ UNCHANGED versoes
            /\ lastOp' = Op("activate", t, p, NoAgent, id, "none", 0, NoItem, "NotFoundError")
    /\ UNCHANGED <<items, rowLock, pc, sel, now, fails>>
    /\ UNCHANGED ledger
    /\ UNCHANGED registry
    /\ UNCHANGED annex

\* ------------------------------------- activate_version, request by request
\* Each request has its own session: it reads the version rows, changes the
\* objects it loaded, and its COMMIT writes the attributes that changed.
NoAct ==
    [open |-> FALSE, tenant_id |-> "none", processo_id |-> "none", id |-> 0,
     off |-> {}, on |-> FALSE]

\* _deactivate_other_versions: the other versions the session read as active
ReadActive(t, p, keep) ==
    {v \in VersaoIds :
        /\ versoes[v].tenant_id = t
        /\ versoes[v].processo_id = p
        /\ v # keep
        /\ versoes[v].is_active}

\* the SELECTs of activate_version; is_active of the target changes only when
\* it was read as FALSE
activate_version_read(c, t, p, id) ==
    /\ ~act[c].open
    /\ IF get_process(t, p) # {} /\ FindVersion(t, p, id) # {}
       THEN /\ act' = [act EXCEPT ![c] =
                        [open |-> TRUE, tenant_id |-> t, processo_id |-> p, id |-> id,
                         off |-> ReadActive(t, p, id), on |-> ~versoes[id].is_active]]
            /\ lastOp' = Op("activate_read", t, p, NoAgent, id, "none", 0, NoItem, "ok")
       ELSE /\ UNCHANGED act
            /\ lastOp' = Op("activate_read", t, p, NoAgent, id, "none", 0, NoItem,
                            "NotFoundError")
    /\ UNCHANGED <<items, rowLock, pc, sel, now, versoes, fails>>
    /\ UNCHANGED <<processos, execucoes, agendamentos, sched>>
    /\ UNCHANGED app
    /\ UNCHANGED registry
    /\ UNCHANGED annex

\* the rows after the UPDATEs of one session
Written(vs, a) ==
    [v \in DOMAIN vs |->
        IF v \in a.off THEN [vs[v] EXCEPT !.is_active = FALSE]
        ELSE IF v = a.id /\ a.on THEN [vs[v] EXCEPT !.is_active = TRUE]
        ELSE vs[v]]

\* the COMMIT of activate_version
activate_version_commit(c) ==
    /\ act[c].open
    /\ versoes' = Written(versoes, act[c])
    /\ act' = [act EXCEPT ![c] = NoAct]
    /\ lastOp' = Op("activate_commit", act[c].tenant_id, act[c].processo_id, NoAgent,
                    act[c].id, "none", 0, NoItem, "ok")
    /\ UNCHANGED <<items, rowLock, pc, sel, now, fails>>
    /\ UNCHANGED <<processos, execucoes, agendamentos, sched>>
    /\ UNCHANGED app
    /\ UNCHANGED registry
    /\ UNCHANGED annex

\* -------------------------------------------------------- ExecutionService
ExecucaoIds == 1..Len(execucoes)

\* update_process with is_active in the payload
update_process(t, p, active) ==
    /\ get_process(t, p) # {}
    /\ processos' = [processos EXCEPT ![p].is_active = active]
    /\ lastOp' = Op("update_process", t, p, NoAgent, 0, "none", 0, NoItem, "ok")
    /\ UNCHANGED <<items, rowLock, pc, sel, now, versoes, fails>>
    /\ UNCHANGED <<act, execucoes, agendamentos, sched>>
    /\ UNCHANGED app
    /\ UNCHANGED registry
    /\ UNCHANGED annex

\* delete_process: the row stays, with deleted_at set; is_active is not changed
delete_process(t, p) ==
    /\ IF get_process(t, p) # {}
       THEN /\ processos' = [processos EXCEPT ![p].deleted_at = now]
            /\ lastOp' = Op("delete_process", t, p, NoAgent, 0, "none", 0, NoItem, "ok")
       ELSE /\ UNCHANGED processos
            /\ lastOp' = Op("delete_process", t, p, NoAgent, 0, "none", 0, NoItem,
                            "NotFoundError")
    /\ UNCHANGED <<items, rowLock, pc, sel, now, versoes, fails>>
    /\ UNCHANGED <<act, execucoes, agendamentos, sched>>
    /\ UNCHANGED app
    /\ UNCHANGED registry
    /\ UNCHANGED annex

\* SELECT Processo WHERE id AND tenant_id (deleted_at is not looked at)
FindProcesso(t, p) == {x \in Processos : x = p /\ ProcessoTenant(x) = t}

\* How trigger_manual_execution ends.  scalar_one_or_none() raises when the
\* process has several active versions.  The statement that builds the
\* ItemFila reads PriorityEnum, a name the module does not import: every call
\* that reaches it raises NameError, after the Execucao was added and flushed.
TriggerResult(t, p) ==
    IF FindProcesso(t, p) = {} THEN "NotFoundError"
    ELSE IF ~processos[p].is_active THEN "BusinessError"
    ELSE IF ActiveVersions(p) = {} THEN "BusinessError"
    ELSE IF Cardinality(ActiveVersions(p)) > 1 THEN "MultipleResultsFound"
    ELSE "NameError"

\* the Execucao that trigger_manual_execution adds and flushes
NovaExecucao(t, p, origin) ==
    [tenant_id |-> t, processo_id |-> p,
     versao_id |-> CHOOSE v \in ActiveVersions(p) : TRUE,
     status |-> QUEUED, trigger_type |-> origin, start_time |-> NoTime,
     end_time |-> NoTime]

\* the rows the session of a trigger_manual_execution call holds flushed and
\* uncommitted when the call raises
Flushed(t, p, origin) ==
    IF TriggerResult(t, p) = "NameError" THEN <<NovaExecucao(t, p, origin)>> ELSE <<>>

\* POST /executions/trigger: the exception leaves the endpoint and
\* get_session rolls the transaction back.  The history keeps the number of
\* items (id) and of executions (prev) before the call.
trigger_manual_execution(t, p) ==
    /\ lastOp' = Op("trigger", t, p, NoAgent, Len(items), "none", Len(execucoes), NoItem,
                    TriggerResult(t, p))
    /\ UNCHANGED <<items, rowLock, pc, sel, now, versoes, fails>>
    /\ UNCHANGED ledger
    /\ UNCHANGED registry
    /\ UNCHANGED annex

\* SELECT Execucao WHERE id AND tenant_id
FindExecucao(t, e) == {x \in ExecucaoIds : x = e /\ execucoes[x].tenant_id = t}

\* SELECT ItemFila WHERE execucao_id AND tenant_id
LinkedItems(t, e) == {i \in ItemIds : items[i].execucao_id = e /\ items[i].tenant_id = t}

\* execucao.status = data.status; end_time is stamped for COMPLETED and FAILED
\* (the request carries no end_time)
Assign(ex, st) ==
    [ex EXCEPT !.status = st,
               !.end_time = IF st \in {COMPLETED, FAILED} THEN now ELSE ex.end_time]

\* the queue item follows COMPLETED and FAILED
Mirror(it, st) ==
    IF st = COMPLETED
    THEN [it EXCEPT !.status = COMPLETED, !.completed_at = now, !.locked_by = NoAgent]
    ELSE IF st = FAILED
    THEN [it EXCEPT !.status = FAILED, !.completed_at = now, !.locked_by = NoAgent]
    ELSE it

\* PATCH /executions/{id}
update_execution_status(t, e, st) ==
    /\ IF FindExecucao(t, e) = {}
       THEN /\ UNCHANGED <<items, execucoes, fails>>
            /\ lastOp' = Op("update_status", t, "none", NoAgent, e, st, 0, NoItem,
                            "NotFoundError")
       ELSE IF Cardinality(LinkedItems(t, e)) > 1
       THEN /\ UNCHANGED <<items, execucoes, fails>>
            /\ lastOp' = Op("update_status", t, execucoes[e].status, NoAgent, e, st, 0,
                            NoItem, "MultipleResultsFound")
       ELSE /\ \A i \in LinkedItems(t, e) : rowLock[i] = 0
            /\ execucoes' = [execucoes EXCEPT ![e] = Assign(execucoes[e], st)]
            /\ items' = [i \in ItemIds |->
                            IF i \in LinkedItems(t, e) THEN Mirror(items[i], st)
                            ELSE items[i]]
            /\ fails' = [i \in ItemIds |-> IF i \in LinkedItems(t, e) THEN -1 ELSE fails[i]]
            /\ lastOp' = Op("update_status", t, execucoes[e].status, NoAgent, e, st, 0,
                            IF LinkedItems(t, e) = {} THEN NoItem
                            ELSE items[CHOOSE i \in LinkedItems(t, e) : TRUE], "ok")
    /\ UNCHANGED <<rowLock, pc, sel, now, versoes>>
    /\ UNCHANGED <<act, processos, agendamentos, sched>>
    /\ UNCHANGED app
    /\ UNCHANGED registry
    /\ UNCHANGED annex

\* request_stop: answers True, for any tenant and any id
request_stop(t, e) ==
    /\ lastOp' = Op("stop", t, "none", NoAgent, e, "none", 0, NoItem, "true")
    /\ UNCHANGED <<items, rowLock, pc, sel, now, versoes, fails>>
    /\ UNCHANGED ledger
    /\ UNCHANGED registry
    /\ UNCHANGED annex

\* ---------------------------------------------------------------- schedules
AgendamentoIds == 1..Len(agendamentos)

Parseable(c) == c # "bad"

CronPeriod(c) == IF c = "*/2 * * * *" THEN 2 ELSE 1

\* croniter(c, t).get_next(): the first firing after t
CronNext(c, t) == ((t \div CronPeriod(c)) + 1) * CronPeriod(c)

\* POST /schedules: next_run stays NULL when the expression is rejected
create_schedule(t, c, p, a) ==
    /\ agendamentos' = Append(agendamentos,
            [tenant_id |-> t, process_id |-> p, cron_expression |-> c, is_active |-> a,
             next_run |-> IF Parseable(c) THEN CronNext(c, now) ELSE NoTime,
             last_run |-> NoTime])
    /\ lastOp' = Op("create_schedule", t, p, NoAgent, Len(agendamentos) + 1, c, 0, NoItem,
                    "created")
    /\ UNCHANGED <<items, rowLock, pc, sel, now, versoes, fails>>
    /\ UNCHANGED <<act, processos, execucoes, sched>>
    /\ UNCHANGED app
    /\ UNCHANGED registry
    /\ UNCHANGED annex

\* PATCH /schedules/{id} with the fields c (cron_expression, NoCron: not in
\* the payload) and a (is_active, {}: not in the payload, else {value}):
\* next_run is recomputed only when cron_expression is in the payload, and
\* then only when the expression parses
update_schedule(t, id, c, a) ==
    /\ id \in AgendamentoIds
    /\ agendamentos[id].tenant_id = t
    /\ agendamentos' = [agendamentos EXCEPT
            ![id].cron_expression = IF c = NoCron THEN @ ELSE c,
            ![id].is_active = IF a = {} THEN @ ELSE CHOOSE b \in a : TRUE,
            ![id].next_run = IF c # NoCron /\ Parseable(c) THEN CronNext(c, now) ELSE @]
    /\ lastOp' = Op("update_schedule", t, agendamentos[id].process_id, NoAgent, id, c,
                    agendamentos[id].next_run, NoItem, "ok")
    /\ UNCHANGED <<items, rowLock, pc, sel, now, versoes, fails>>
    /\ UNCHANGED <<act, processos, execucoes, sched>>
    /\ UNCHANGED app
    /\ UNCHANGED registry
    /\ UNCHANGED annex

\* ---------------------------------------------------------------- scheduler
\* WHERE is_active AND next_run <= now AND process_id IS NOT NULL
Due(t) ==
    {s \in AgendamentoIds :
        /\ agendamentos[s].is_active
        /\ agendamentos[s].next_run # NoTime
        /\ agendamentos[s].next_run <= t
        /\ agendamentos[s].process_id # NoProcess}

\* process_due_schedules finds no due schedule and returns
process_due_schedules_none ==
    /\ ~sched.running
    /\ Due(now) = {}
    /\ sched' = [NoPass EXCEPT !.time = now]
    /\ lastOp' = Op("pass", "none", "none", NoAgent, 0, "none", 0, NoItem, "none")
    /\ UNCHANGED <<items, rowLock, pc, sel, now, versoes, fails>>
    /\ UNCHANGED <<act, processos, execucoes, agendamentos>>
    /\ UNCHANGED app
    /\ UNCHANGED registry
    /\ UNCHANGED annex

\* process_due_schedules reads the due schedules
process_due_schedules_select ==
    /\ ~sched.running
    /\ Due(now) # {}
    /\ sched' = [running |-> TRUE, time |-> now, due |-> Due(now), seen |-> Due(now),
                 done |-> {}, failed |-> {}]
    /\ lastOp' = Op("pass", "none", "none", NoAgent, 0, "none", 0, NoItem, "due")
    /\ UNCHANGED <<items, rowLock, pc, sel, now, versoes, fails>>
    /\ UNCHANGED <<act, processos, execucoes, agendamentos>>
    /\ UNCHANGED app
    /\ UNCHANGED registry
    /\ UNCHANGED annex

\* _update_next_run: the exception of croniter is swallowed and next_run is
\* left as it was
update_next_run(ag) ==
    IF Parseable(ag.cron_expression)
    THEN [ag EXCEPT !.next_run = CronNext(ag.cron_expression, now)]
    ELSE ag

\* the exception of one schedule ends the pass
AbortOnFailure(due, s, r) == IF r = "ok" THEN due \ {s} ELSE {}

\* the for loop goes on to the next schedule whatever _trigger_and_update met
Remaining(due, s, r) == due \ {s}

\* _trigger_and_update for one schedule of the pass.  When the trigger call
\* raises, the except branch recomputes next_run and commits the session the
\* call used: the rows the call had flushed are committed with it.
trigger_and_update(s) ==
    /\ sched.running
    /\ s \in sched.due
    /\ LET ag == agendamentos[s]
           r == TriggerResult(ag.tenant_id, ag.process_id)
       IN /\ agendamentos' = [agendamentos EXCEPT ![s] =
                    IF r = "ok" THEN update_next_run([ag EXCEPT !.last_run = now])
                    ELSE update_next_run(ag)]
          /\ execucoes' = execucoes \o Flushed(ag.tenant_id, ag.process_id, CRON)
          /\ sched' = [sched EXCEPT
                    !.due = Remaining(sched.due, s, r),
                    !.done = @ \cup {s},
                    !.failed = IF r = "ok" THEN @ ELSE @ \cup {s},
                    !.running = Remaining(sched.due, s, r) # {}]
          /\ lastOp' = Op("schedule", ag.tenant_id, ag.process_id, NoAgent, s,
                          ag.cron_expression, ag.next_run, NoItem, r)
    /\ UNCHANGED <<items, rowLock, pc, sel, now, versoes, fails>>
    /\ UNCHANGED <<act, processos>>
    /\ UNCHANGED app
    /\ UNCHANGED registry
    /\ UNCHANGED annex

\* ----------------------------------------------------------- AgentService
AgenteIds == 1..Len(agentes)

\* no create_agent or update_agent transaction open
NoReg ==
    [open |-> FALSE, op |-> "none", tenant_id |-> "none", id |-> 0,
     name |-> NoName, status |-> NoStatus, extra_data |-> NoData]

\* ids: the agents in the body; online: those it reports with is_online true
NoResp == [ids |-> {}, online |-> {}]

\* get_agent: the row of the tenant that is not soft-deleted
get_agent(t, id) ==
    {a \in AgenteIds : a = id /\ agentes[a].tenant_id = t /\ agentes[a].deleted_at = NoTime}

\* _get_by_name: the rows of the tenant with the name that are not soft-deleted
get_by_name(t, n) ==
    {a \in AgenteIds :
        agentes[a].tenant_id = t /\ agentes[a].name = n /\ agentes[a].deleted_at = NoTime}

\* a table without the unique index
NoUniqueIndex(rows, t, n, self) == {}

\* idx_agente_tenant_name, unique on (tenant_id, name): the rows, soft-deleted
\* or not, that an INSERT or UPDATE of row `self` with this name collides with
idx_agente_tenant_name(rows, t, n, self) ==
    {a \in 1..Len(rows) : a # self /\ rows[a].tenant_id = t /\ rows[a].name = n}

\* _agent_to_read: is_online of the AgentRead body
agent_to_read(ag, t) ==
    /\ ag.last_heartbeat # NoTime
    /\ t - ag.last_heartbeat < OnlineWindow
    /\ ag.status # MAINTENANCE

\* is_online of the HeartbeatResponse body
HeartbeatOnline(ag, t) ==
    /\ ag.last_heartbeat # NoTime
    /\ t - ag.last_heartbeat < OnlineWindow

\* list_agents, filters.is_online: "none" (not given), "true" or "false"
ListFilter(ag, t, f) ==
    IF f = "none" THEN TRUE
    ELSE IF f = "true" THEN ag.last_heartbeat # NoTime /\ ag.last_heartbeat > t - OnlineWindow
    ELSE ag.last_heartbeat = NoTime \/ ag.last_heartbeat <= t - OnlineWindow

\* the body made of _agent_to_read of the rows ids
Body(rows, ids, t) == [ids |-> ids, online |-> {a \in ids : agent_to_read(rows[a], t)}]

NovoAgente(t, n, x) ==
    [tenant_id |-> t, name |-> n, status |-> OFFLINE, last_heartbeat |-> NoTime,
     extra_data |-> x, deleted_at |-> NoTime]

\* create_agent: ConflictError from the check by name, IntegrityError from
\* the INSERT
CreateResult(t, n) ==
    IF get_by_name(t, n) # {} THEN "ConflictError"
    ELSE IF idx_agente_tenant_name(agentes, t, n, 0) # {} THEN "IntegrityError"
    ELSE "ok"

create_agent(t, n, x) ==
    /\ IF CreateResult(t, n) = "ok"
       THEN /\ agentes' = Append(agentes, NovoAgente(t, n, x))
            /\ resp' = Body(agentes', {Len(agentes')}, now)
       ELSE /\ UNCHANGED agentes
            /\ resp' = NoResp
    /\ lastOp' = Op("create_agent", t, n, NoAgent, Len(agentes) + 1, "none", 0, NoItem,
                    CreateResult(t, n))
    /\ UNCHANGED <<items, rowLock, pc, sel, now, versoes, fails, reg>>
    /\ UNCHANGED ledger
    /\ UNCHANGED annex

\* update_agent with name and status in the payload (NoName, NoStatus: the
\* field is not in it)
UpdateResult(t, id, n) ==
    IF get_agent(t, id) = {} THEN "NotFoundError"
    ELSE IF n # NoName /\ n # agentes[id].name /\ get_by_name(t, n) # {}
    THEN "ConflictError"
    ELSE IF n # NoName /\ idx_agente_tenant_name(agentes, t, n, id) # {}
    THEN "IntegrityError"
    ELSE "ok"

Updated(ag, n, st) ==
    [ag EXCEPT !.name = IF n = NoName THEN @ ELSE n,
               !.status = IF st = NoStatus THEN @ ELSE st]

update_agent(t, id, n, st) ==
    /\ IF UpdateResult(t, id, n) = "ok"
       THEN /\ agentes' = [agentes EXCEPT ![id] = Updated(@, n, st)]
            /\ resp' = Body(agentes', {id}, now)
       ELSE /\ UNCHANGED agentes
            /\ resp' = NoResp
    /\ lastOp' = Op("update_agent", t, n, NoAgent, id, st, 0, NoItem, UpdateResult(t, id, n))
    /\ UNCHANGED <<items, rowLock, pc, sel, now, versoes, fails, reg>>
    /\ UNCHANGED ledger
    /\ UNCHANGED annex

\* create_agent and update_agent of concurrent requests, from the check by
\* name to the commit
create_agent_read(c, t, n, x) ==
    /\ ~reg[c].open
    /\ IF get_by_name(t, n) # {}
       THEN /\ UNCHANGED reg
            /\ lastOp' = Op("create_agent", t, n, NoAgent, 0, "none", 0, NoItem, "ConflictError")
       ELSE /\ reg' = [reg EXCEPT ![c] = [open |-> TRUE, op |-> "create_agent", tenant_id |-> t,
                                          id |-> 0, name |-> n, status |-> NoStatus,
                                          extra_data |-> x]]
            /\ lastOp' = Op("create_agent_read", t, n, NoAgent, 0, "none", 0, NoItem, "ok")
    /\ resp' = NoResp
    /\ UNCHANGED <<items, rowLock, pc, sel, now, versoes, fails, agentes>>
    /\ UNCHANGED ledger
    /\ UNCHANGED annex

update_agent_read(c, t, id, n) ==
    /\ ~reg[c].open
    /\ IF get_agent(t, id) = {}
       THEN /\ UNCHANGED reg
            /\ lastOp' = Op("update_agent", t, n, NoAgent, id, "none", 0, NoItem, "NotFoundError")
       ELSE IF n # agentes[id].name /\ get_by_name(t, n) # {}
       THEN /\ UNCHANGED reg
            /\ lastOp' = Op("update_agent", t, n, NoAgent, id, "none", 0, NoItem, "ConflictError")
       ELSE /\ reg' = [reg EXCEPT ![c] = [open |-> TRUE, op |-> "update_agent", tenant_id |-> t,
                                          id |-> id, name |-> n, status |-> NoStatus,
                                          extra_data |-> NoData]]
            /\ lastOp' = Op("update_agent_read", t, n, NoAgent, id, "none", 0, NoItem, "ok")
    /\ resp' = NoResp
    /\ UNCHANGED <<items, rowLock, pc, sel, now, versoes, fails, agentes>>
    /\ UNCHANGED ledger
    /\ UNCHANGED annex

\* the rows after the INSERT or UPDATE of the transaction r
Committed(rows, r) ==
    IF r.op = "create_agent" THEN Append(rows, NovoAgente(r.tenant_id, r.name, r.extra_data))
    ELSE [rows EXCEPT ![r.id] = Updated(@, r.name, r.status)]

agent_commit(c) ==
    /\ reg[c].open
    /\ IF idx_agente_tenant_name(agentes, reg[c].tenant_id, reg[c].name, reg[c].id) # {}
       THEN /\ UNCHANGED agentes
            /\ lastOp' = Op(reg[c].op, reg[c].tenant_id, reg[c].name, NoAgent,
                            reg[c].id, "none", 0, NoItem, "IntegrityError")
       ELSE /\ agentes' = Committed(agentes, reg[c])
            /\ lastOp' = Op(reg[c].op, reg[c].tenant_id, reg[c].name, NoAgent,
                            IF reg[c].op = "create_agent" THEN Len(agentes) + 1 ELSE reg[c].id,
                            "none", 0, NoItem, "ok")
    /\ reg' = [reg EXCEPT ![c] = NoReg]
    /\ resp' = NoResp
    /\ UNCHANGED <<items, rowLock, pc, sel, now, versoes, fails>>
    /\ UNCHANGED ledger
    /\ UNCHANGED annex

\* delete_agent: deleted_at is the one column it sets
delete_agent(t, id) ==
    /\ IF get_agent(t, id) = {}
       THEN /\ UNCHANGED agentes
            /\ lastOp' = Op("delete_agent", t, NoName, NoAgent, id, "none", 0, NoItem,
                            "NotFoundError")
       ELSE /\ agentes' = [agentes EXCEPT ![id].deleted_at = now]
            /\ lastOp' = Op("delete_agent", t, agentes[id].name, NoAgent, id, "none", 0, NoItem,
                            "ok")
    /\ resp' = NoResp
    /\ UNCHANGED <<items, rowLock, pc, sel, now, versoes, fails, reg>>
    /\ UNCHANGED ledger
    /\ UNCHANGED annex

\* dict.update: the keys of x over those of d
Merged(d, x) == [k \in MetaKeys |-> IF x[k] # Absent THEN x[k] ELSE d[k]]

\* the dict of a JSON column changed in place, the attribute never assigned:
\* the column (Column(JSON), no mutable extension) is not in the UPDATE of
\* the commit, and refresh reads the stored value back
InPlace(d, m) == d

\* record_heartbeat with status and extra_data (NoData: nothing to merge);
\* in lastOp, tipo: the status reported; prev: last_heartbeat before; pre: the
\* extra_data reported
record_heartbeat(t, id, st, x) ==
    /\ IF get_agent(t, id) = {}
       THEN /\ UNCHANGED agentes
            /\ resp' = NoResp
            /\ lastOp' = Op("heartbeat", t, NoName, NoAgent, id, st, 0, x, "NotFoundError")
       ELSE /\ agentes' = [agentes EXCEPT
                              ![id].status = st,
                              ![id].last_heartbeat = now,
                              ![id].extra_data = IF x = NoData THEN @
                                                 ELSE InPlace(@, Merged(@, x))]
            /\ resp' = [ids |-> {id},
                        online |-> {a \in {id} : HeartbeatOnline(agentes'[a], now)}]
            /\ lastOp' = Op("heartbeat", t, agentes[id].name, NoAgent, id, st,
                            agentes[id].last_heartbeat, x, "ok")
    /\ UNCHANGED <<items, rowLock, pc, sel, now, versoes, fails, reg>>
    /\ UNCHANGED ledger
    /\ UNCHANGED annex

\* GET /agents/{id}
read_agent(t, id) ==
    /\ IF get_agent(t, id) = {}
       THEN /\ resp' = NoResp
            /\ lastOp' = Op("read_agent", t, NoName, NoAgent, id, "none", 0, NoItem,
                            "NotFoundError")
       ELSE /\ resp' = Body(agentes, {id}, now)
            /\ lastOp' = Op("read_agent", t, agentes[id].name, NoAgent, id, "none", 0, NoItem,
                            "ok")
    /\ UNCHANGED <<items, rowLock, pc, sel, now, versoes, fails, agentes, reg>>
    /\ UNCHANGED ledger
    /\ UNCHANGED annex

\* list_agents: the rows of the tenant, not soft-deleted, that pass the
\* filter; tipo: the filter
Listed(t, f) ==
    {a \in AgenteIds :
        /\ agentes[a].tenant_id = t
        /\ agentes[a].deleted_at = NoTime
        /\ ListFilter(agentes[a], now, f)}

list_agents(t, f) ==
    /\ resp' = Body(agentes, Listed(t, f), now)
    /\ lastOp' = Op("list_agents", t, NoName, NoAgent, 0, f, 0, NoItem, "ok")
    /\ UNCHANGED <<items, rowLock, pc, sel, now, versoes, fails, agentes, reg>>
    /\ UNCHANGED ledger
    /\ UNCHANGED annex

\* ------------------------------------------------------------------ main
\* lifespan, startup: the database and Redis are initialised; no background
\* task is created (start_scheduler is called nowhere)
StartupTasks == {}

lifespan_startup ==
    /\ ~app.running
    /\ app' = [running |-> TRUE, tasks |-> StartupTasks]
    /\ lastOp' = Op("startup", "none", "none", NoAgent, 0, "none", 0, NoItem, "ok")
    /\ UNCHANGED <<items, rowLock, pc, sel, now, versoes, fails>>
    /\ UNCHANGED <<act, processos, execucoes, agendamentos, sched>>
    /\ UNCHANGED registry
    /\ UNCHANGED annex

\* lifespan, shutdown: the tasks of the event loop end with it
lifespan_shutdown ==
    /\ app.running
    /\ app' = [running |-> FALSE, tasks |-> {}]
    /\ lastOp' = Op("shutdown", "none", "none", NoAgent, 0, "none", 0, NoItem, "ok")
    /\ UNCHANGED <<items, rowLock, pc, sel, now, versoes, fails>>
    /\ UNCHANGED <<act, processos, execucoes, agendamentos, sched>>
    /\ UNCHANGED registry
    /\ UNCHANGED annex

\* ------------------------------------------------------------- the worker
\* WorkerManager after start(): no token yet, nothing running
NoWorker ==
    [token |-> FALSE, current |-> NoTask, received |-> 0,
     runners |-> [e \in ExecIds |-> [phase |-> "none", script |-> "none", exit |-> 0]],
     sent |-> <<>>]

\* str(item.get("execucao_id") or item.get("id"))
ExecutionIdOf(i, e) == IF e # 0 THEN e ELSE i

IsStr(s) == s # "<number>"

\* Path.exists() of the script
ScriptExists(s) == s = "main.py"

\* what AutomationRunner.run returns as exit code
ExitCode(o) ==
    CASE o = "success" -> 0
      [] o = "nonzero" -> 1
      [] o = "timeout" -> -1
      [] o = "error" -> -1

worker_unchanged ==
    /\ UNCHANGED <<items, rowLock, pc, sel, now, versoes, fails>>
    /\ UNCHANGED ledger
    /\ UNCHANGED registry
    /\ UNCHANGED <<excecoes, post>>

\* _heartbeat_loop without a token: _initial_handshake, which may fail
heartbeat_handshake(ok) ==
    /\ ~worker.token
    /\ worker' = [worker EXCEPT !.token = ok]
    /\ lastOp' = Op("handshake", "none", "none", NoAgent, 0, "none", 0, NoItem,
                    IF ok THEN "ok" ELSE "failed")
    /\ worker_unchanged

\* _polling_loop while an execution is current or there is no token: it
\* sleeps and tries again (prev: the parity of the sleeps in a row, a loop
\* that keeps sleeping keeps taking steps)
polling_wait ==
    /\ worker.current # NoTask \/ ~worker.token
    /\ lastOp' = Op("poll", "none", "none", NoAgent, worker.current, "none",
                    IF lastOp.op = "poll" /\ lastOp.ret = "wait" THEN 1 - lastOp.prev ELSE 0,
                    NoItem, "wait")
    /\ UNCHANGED worker
    /\ worker_unchanged

\* _polling_loop: the request is answered with no item (r = "empty"), with
\* 401 (the token is dropped) or not at all (r = "error": the exception is
\* logged)
polling_request(r) ==
    /\ worker.current = NoTask
    /\ worker.token
    /\ worker' = [worker EXCEPT !.token = r # "401"]
    /\ lastOp' = Op("poll", "none", "none", NoAgent, 0, "none", 0, NoItem, r)
    /\ worker_unchanged

\* _execute_task: the runner is made current and its thread is started; when
\* the script path cannot be built (script_name is not a string) the except
\* branch clears current_execution and nothing is started
Executing(w, x, s) ==
    IF IsStr(s)
    THEN [w EXCEPT !.current = x,
                   !.runners[x] = [phase |-> "started", script |-> s, exit |-> 0]]
    ELSE [w EXCEPT !.current = NoTask]

\* _polling_loop: the request is answered with item i, linked to execution e
\* (0: to none), whose payload names script s
polling_item(i, e, s) ==
    /\ worker.current = NoTask
    /\ worker.token
    /\ i = worker.received + 1
    /\ worker' = Executing([worker EXCEPT !.received = i], ExecutionIdOf(i, e), s)
    /\ lastOp' = Op("poll", "none", s, NoAgent, ExecutionIdOf(i, e), "none", i, NoItem,
                    "item")
    /\ worker_unchanged

\* run_wrapper: runner.run().  The check that the script exists is before
\* the try block of run: FileNotFoundError leaves run and run_wrapper, and
\* the thread ends there.  Otherwise run returns an exit code (o: how the
\* process ended).
runner_run(x, o) ==
    /\ worker.runners[x].phase = "started"
    /\ worker' = [worker EXCEPT !.runners[x] =
            IF ScriptExists(@.script)
            THEN [@ EXCEPT !.phase = "ran", !.exit = ExitCode(o)]
            ELSE [@ EXCEPT !.phase = "dead"]]
    /\ lastOp' = Op("run", "none", worker.runners[x].script, NoAgent, x, "none", 0, NoItem,
                    IF ScriptExists(worker.runners[x].script) THEN o
                    ELSE "FileNotFoundError")
    /\ worker_unchanged

\* run_wrapper: _report_result sends PATCH /executions/{id}
report_result(x) ==
    /\ worker.runners[x].phase = "ran"
    /\ worker' = [worker EXCEPT
            !.runners[x].phase = "reported",
            !.sent = Append(@, [execution_id |-> x,
                                status |-> IF worker.runners[x].exit = 0 THEN COMPLETED
                                           ELSE FAILED])]
    /\ lastOp' = Op("report", "none", "none", NoAgent, x, "none", 0, NoItem, "sent")
    /\ worker_unchanged

\* run_wrapper: the last statement, self.current_execution = None
runner_reset(x) ==
    /\ worker.runners[x].phase = "reported"
    /\ worker' = [worker EXCEPT !.runners[x].phase = "none", !.current = NoTask]
    /\ lastOp' = Op("reset", "none", "none", NoAgent, x, "none", 0, NoItem, "idle")
    /\ worker_unchanged

\* ------------------------------------------------------------ the system
Init ==
    /\ items = <<>>
    /\ rowLock = <<>>
    /\ pc = [c \in Callers |-> "idle"]
    /\ sel = [c \in Callers |-> NoSel]
    /\ now = 0
    /\ versoes = <<>>
    /\ fails = <<>>
    /\ lastOp = Op("init", "none", "none", NoAgent, 0, "none", 0, NoItem, "none")
    /\ act = [c \in Callers |-> NoAct]
    /\ processos = [p \in Processos |-> [is_active |-> TRUE, deleted_at |-> NoTime]]
    /\ execucoes = <<>>
    /\ agendamentos = <<>>
    /\ sched = NoPass
    /\ agentes = <<>>
    /\ reg = [c \in Callers |-> NoReg]
    /\ resp = NoResp
    /\ app = [running |-> FALSE, tasks |-> {}]
    /\ excecoes = <<>>
    /\ worker = NoWorker
    /\ post = [c \in Callers |-> NoPost]

\* The requests, with their values drawn from the given sets: at most N rows,
\* TS tenants, PS priorities, MS max_retries, DS offsets of deferred_until
\* from now (NoTime: not given), CS callers, AS agents, KS failure kinds, at
\* most L failure reports.
Creates(N, TS, PS, MS, DS) ==
    \/ \E t \in TS, q \in Queues, p \in PS, m \in MS :
        Len(items) < N /\ create_item(t, q, p, m)
    \/ \E t \in TS, q \in Queues, p \in PS, m \in MS, d \in DS :
        Len(items) < N /\ api_create_item(t, q, p, m, IF d = NoTime THEN NoTime ELSE now + d, 0)

Claims(CS, TS, AS) ==
    \/ \E c \in CS, t \in TS, q \in Queues, a \in AS : get_next_item_none(c, t, q, a)
    \/ \E c \in CS, t \in TS, q \in Queues, a \in AS : get_next_item_select(c, t, q, a)
    \/ \E c \in CS : get_next_item_commit(c)

Reports(N, TS, KS, L) ==
    \/ \E t \in TS, id \in 1..N : complete_item(t, id)
    \/ \E t \in TS, id \in 1..N, tipo \in KS :
        Len(excecoes) < L /\ fail_item(t, id, tipo)

\* Sequential calls on one tenant's queue (reports also arrive under another
\* tenant): claim, complete, fail and retry.
Next ==
    \/ Creates(MaxItems, {"tA"}, {"NORMAL"}, {0, MaxRetriesInput}, {NoTime})
    \/ Claims({1}, {"tA"}, {"a1"})
    \/ Reports(MaxItems, Tenants, {"business", SYSTEM}, MaxOtherExcecoes)
    \/ Tick(MaxTime)

Spec == Init /\ [][Next]_vars

\* One queue with items of every priority: the order of the claims.
NextOrder ==
    \/ Creates(MaxOrderItems, {"tA"}, PriorityEnum, {0}, {NoTime})
    \/ Claims({1}, {"tA"}, {"a1"})
    \/ Tick(MaxOrderTime)

SpecOrder == Init /\ [][NextOrder]_vars

\* One queue with deferred items.
NextDefer ==
    \/ Creates(MaxItems, {"tA"}, {"NORMAL"}, {0}, {NoTime, 1})
    \/ Claims({1}, {"tA"}, {"a1"})
    \/ Reports(MaxItems, {"tA"}, {SYSTEM}, MaxOtherExcecoes)
    \/ Tick(MaxOrderTime)

SpecDefer == Init /\ [][NextDefer]_vars

\* Concurrent claims: several callers between their SELECT and their COMMIT.
\* Every item has max_retries = 0, so no failed item goes back to PENDING
\* after it was claimed.
NextClaim ==
    \/ Creates(MaxItems, Tenants, {"NORMAL"}, {0}, {NoTime})
    \/ Claims(Callers, Tenants, {"a1"})
    \/ Reports(MaxItems, {"tA"}, {SYSTEM}, MaxOtherExcecoes)

SpecClaim == Init /\ [][NextClaim]_vars

\* The retry budget of an item: max_retries 0 or MaxRetriesInput, every report.
NextRetry ==
    \/ Creates(MaxRetryItems, {"tA"}, {"NORMAL"}, {0, MaxRetriesInput}, {NoTime})
    \/ Claims({1}, {"tA"}, {"a1"})
    \/ Reports(MaxRetryItems, Tenants, {"business", SYSTEM}, MaxExcecoes)

SpecRetry == Init /\ [][NextRetry]_vars

\* Versions of the processes: creation and activation.
NextVersion ==
    \/ \E t \in Tenants, p \in Processos, n \in VersionNames, a \in BOOLEAN :
        Len(versoes) < MaxVersions /\ create_version(t, p, n, a)
    \/ \E t \in Tenants, p \in Processos, id \in 1..MaxVersions : activate_version(t, p, id)

SpecVersion == Init /\ [][NextVersion]_vars

\* Concurrent activation requests on the versions of the processes; versions
\* are created while no activation is open.
NextActivate ==
    \/ \E t \in Tenants, p \in Processos, n \in VersionNames, a \in BOOLEAN :
        /\ \A c \in Callers : ~act[c].open
        /\ Len(versoes) < MaxVersions
        /\ create_version(t, p, n, a)
    \/ \E c \in Callers, t \in Tenants, p \in Processos, id \in 1..MaxVersions :
        activate_version_read(c, t, p, id)
    \/ \E c \in Callers : activate_version_commit(c)

SpecActivate == Init /\ [][NextActivate]_vars

\* Trigger requests on processes that are activated and deactivated, with
\* versions created and activated one request at a time.
NextTrigger ==
    \/ \E t \in Tenants, p \in Processos, n \in VersionNames, a \in BOOLEAN :
        Len(versoes) < MaxVersions /\ create_version(t, p, n, a)
    \/ \E t \in Tenants, p \in Processos, id \in 1..MaxVersions : activate_version(t, p, id)
    \/ \E t \in Tenants, p \in Processos, a \in BOOLEAN : update_process(t, p, a)
    \/ \E t \in Tenants, p \in Processos : trigger_manual_execution(t, p)

SpecTrigger == Init /\ [][NextTrigger]_vars

\* The scheduler task, with schedules created and edited between its passes
\* (SS: their tenants, PS: the processes they are bound to, CS: their cron
\* expressions, N: how many) and at most E executions.
Schedules(N, SS, PS, CS) ==
    \/ \E t \in SS, c \in CS, p \in PS :
        ~sched.running /\ Len(agendamentos) < N /\ create_schedule(t, c, p, TRUE)
    \/ \E t \in SS, id \in 1..N, c \in CS :
        ~sched.running /\ update_schedule(t, id, c, {})

Scheduler(E) ==
    \/ process_due_schedules_none
    \/ Len(execucoes) + Cardinality(Due(now)) <= E /\ process_due_schedules_select
    \/ \E s \in AgendamentoIds : trigger_and_update(s)

NextSchedule ==
    \/ \E a \in BOOLEAN : Len(versoes) < 1 /\ create_version("tA", "p1", "1.0.0", a)
    \/ Schedules(MaxSchedules, {"tA"}, {"p1", "p2"}, {"* * * * *", "bad"})
    \/ Scheduler(MaxExecucoes)
    \/ Tick(MaxPassTime)

SpecSchedule == Init /\ [][NextSchedule]_vars

\* Queue items linked to executions that are still QUEUED (N items, of tenants
\* TS, with max_retries in MS).
LinkedCreates(N, TS, MS) ==
    \E t \in TS, q \in Queues, m \in MS, e \in ExecucaoIds :
        /\ Len(items) < N
        /\ execucoes[e].status = QUEUED
        /\ api_create_item(t, q, "NORMAL", m, NoTime, e)

StatusUpdates(E, TS, SS) ==
    \E t \in TS, e \in 1..E, st \in SS : update_execution_status(t, e, st)

\* The ledger: one process with an active version and a schedule, the
\* executions the scheduler leaves, the queue items linked to them, and the
\* reports of the agents on both.
NextLedger ==
    \/ Len(versoes) < 1 /\ create_version("tA", "p1", "1.0.0", TRUE)
    \/ Schedules(1, {"tA"}, {"p1"}, {"* * * * *"})
    \/ Scheduler(MaxLedgerExecucoes)
    \/ Tick(MaxTime)
    \/ LinkedCreates(MaxLedgerItems, {"tA"}, {MaxRetriesInput})
    \/ Claims({1}, {"tA"}, {"a1"})
    \/ Reports(MaxLedgerItems, {"tA"}, {"business", SYSTEM}, MaxOtherExcecoes)
    \/ StatusUpdates(MaxLedgerExecucoes, {"tA"}, StatusExecucaoEnum)

SpecLedger == Init /\ [][NextLedger]_vars

\* The ledger with both claim paths: agents also claim through the endpoint.
NextLease ==
    \/ NextLedger
    \/ \E q \in Queues : api_get_next_item("tA", q)

SpecLease == Init /\ [][NextLease]_vars

\* One queue claimed through both paths: items of two priorities with no
\* retry allowed, claimed by the service or through the endpoint, and their
\* reports.
NextPaths ==
    \/ Creates(MaxItems, {"tA"}, {"NORMAL", "HIGH"}, {0}, {NoTime})
    \/ Claims({1}, {"tA"}, {"a1"})
    \/ \E q \in Queues : api_get_next_item("tA", q)
    \/ Reports(MaxItems, {"tA"}, {SYSTEM}, MaxExcecoes)

SpecPaths == Init /\ [][NextPaths]_vars

\* Overlapping POST /workload/items requests of one tenant, the endpoint
\* claim and the completion of the claimed item.
InFlight == Cardinality({c \in Callers : post[c].pc = "checked"})

NextReference ==
    \/ \E c \in Callers, t \in Tenants, r \in References \cup {NoRef} :
            /\ Len(items) + InFlight < MaxItems
            /\ post_check(c, t, "q1", r)
    \/ \E c \in Callers : post_commit(c, "NORMAL", 0)
    \/ api_get_next_item("tA", "q1")
    \/ \E id \in 1..MaxItems : complete_item("tA", id)

SpecReference == Init /\ [][NextReference]_vars

\* The worker: its polling loop, the handshake of its heartbeat loop and the
\* run_wrapper threads, with the answers of the orchestrator and the outcomes
\* of the runs as inputs.  Both loops and every started thread keep running.
Polling ==
    \/ polling_wait
    \/ \E r \in {"empty", "401", "error"} : polling_request(r)
    \/ \E i \in TaskIds : \E e \in {0, i + MaxTasks}, s \in ScriptNames :
            polling_item(i, e, s)

RunWrapper ==
    \/ \E x \in ExecIds, o \in RunOutcomes : runner_run(x, o)
    \/ \E x \in ExecIds : report_result(x)
    \/ \E x \in ExecIds : runner_reset(x)

NextWorker ==
    \/ \E ok \in BOOLEAN : heartbeat_handshake(ok)
    \/ Polling
    \/ RunWrapper

SpecWorker ==
    /\ Init
    /\ [][NextWorker]_vars
    /\ WF_vars(Polling)
    /\ WF_vars(RunWrapper)
    /\ WF_vars(heartbeat_handshake(TRUE))

\* One run: process p1 of tenant tA gets its versions and one is activated,
\* p1 is triggered, agent a1 claims on the queue named after the process and
\* reports; the queue also receives an item of its own.
NextRun ==
    \/ \E n \in VersionNames : create_version("tA", "p1", n, FALSE)
    \/ \E id \in 1..MaxVersions : activate_version("tA", "p1", id)
    \/ trigger_manual_execution("tA", "p1")
    \/ Len(items) < MaxLedgerItems /\ create_item("tA", "p1", "NORMAL", 0)
    \/ get_next_item_none(1, "tA", "p1", "a1")
    \/ get_next_item_select(1, "tA", "p1", "a1")
    \/ get_next_item_commit(1)
    \/ \E id \in 1..MaxLedgerItems : complete_item("tA", id)
    \/ StatusUpdates(MaxLedgerExecucoes, {"tA"}, {COMPLETED})

SpecRun == Init /\ [][NextRun]_vars

\* The agent registry under concurrent requests: create_agent and update_agent
\* (a rename) from their check by name to their commit, and delete_agent; at
\* most N rows (a create_agent that the check refuses adds none).
Registrations(N, CS, TS) ==
    \/ \E c \in CS, t \in TS, n \in AgentNames :
          /\ \/ Len(agentes) + Cardinality({d \in Callers : reg[d].op = "create_agent"}) < N
             \/ get_by_name(t, n) # {}
          /\ create_agent_read(c, t, n, NoData)
    \/ \E c \in CS, t \in TS, id \in AgenteIds, n \in AgentNames : update_agent_read(c, t, id, n)
    \/ \E c \in CS : agent_commit(c)
    \/ \E t \in TS, id \in AgenteIds : delete_agent(t, id)

\* two callers, the transactions that overlap
NextRegister == Registrations(MaxAgentes, {1, 2}, Tenants)

SpecRegister == Init /\ [][NextRegister]_vars


\* Heartbeats on a registry of at most N agents, from both tenants and on ids
\* that are unknown or soft-deleted; extra_data of two keys.
Data(r, e) == [k \in MetaKeys |-> IF k = "region" THEN r ELSE e]

Heartbeats(N, TS, SS, XS) ==
    \E t \in TS, id \in 1..(N + 1), st \in SS, x \in XS : record_heartbeat(t, id, st, x)

NextHeartbeat ==
    \/ \E t \in Tenants, x \in {NoData, Data("eu", Absent)} :
          Len(agentes) < MaxBeatAgentes /\ create_agent(t, "bot-1", x)
    \/ Heartbeats(MaxBeatAgentes, Tenants, {ONLINE, BUSY},
                  {NoData, Data("us", Absent), Data(Absent, "prod")})
    \/ \E t \in Tenants, id \in AgenteIds : delete_agent(t, id)
    \/ Tick(MaxTime)

SpecHeartbeat == Init /\ [][NextHeartbeat]_vars


\* One tenant's registry read while the clock runs past the window of
\* is_online: GET /agents/{id}, the list with each is_online filter, heartbeats
\* with every status and a manual change of status.
Reads(TS, FS) ==
    \/ \E t \in TS, id \in AgenteIds : read_agent(t, id)
    \/ \E t \in TS, f \in FS : list_agents(t, f)

NextOnline ==
    \/ Len(agentes) < MaxBeatAgentes /\ create_agent("tA", "bot-1", NoData)
    \/ Heartbeats(MaxBeatAgentes, {"tA"}, StatusAgenteEnum, {NoData})
    \/ \E id \in AgenteIds, st \in {ONLINE, MAINTENANCE} : update_agent("tA", id, NoName, st)
    \/ Reads({"tA"}, {"none", "true", "false"})
    \/ Tick(MaxAgentTime)

SpecOnline == Init /\ [][NextOnline]_vars


\* Agents of both tenants registered, reporting, renamed, read and removed,
\* and requests on agents that were removed.
NextRemoval ==
    \/ \E t \in Tenants, n \in AgentNames :
          Len(agentes) < MaxAgentes /\ create_agent(t, n, NoData)
    \/ Heartbeats(MaxAgentes, Tenants, {ONLINE}, {NoData})
    \/ \E t \in Tenants, id \in AgenteIds, n \in AgentNames : update_agent(t, id, n, NoStatus)
    \/ \E t \in Tenants, id \in AgenteIds : delete_agent(t, id)
    \/ Reads(Tenants, {"none"})

SpecRemoval == Init /\ [][NextRemoval]_vars


\* The executions the scheduler leaves, under the requests that control them:
\* status reports and stop requests of both tenants.
Stops(E, TS) == \E t \in TS, e \in 1..E : request_stop(t, e)

NextControl ==
    \/ Len(versoes) < 1 /\ create_version("tA", "p1", "1.0.0", TRUE)
    \/ Schedules(1, {"tA"}, {"p1"}, {"* * * * *"})
    \/ Scheduler(MaxLedgerExecucoes)
    \/ Tick(MaxTime)
    \/ StatusUpdates(MaxLedgerExecucoes, Tenants, StatusExecucaoEnum)
    \/ Stops(MaxLedgerExecucoes, Tenants)

SpecControl == Init /\ [][NextControl]_vars


\* Schedules of one tenant created active or inactive, their cron expression
\* changed and their is_active switched, while the clock runs.
NextPlan ==
    \/ \E c \in CronExpressions, a \in BOOLEAN :
          Len(agendamentos) < MaxPlans /\ create_schedule("tA", c, "p1", a)
    \/ \E id \in AgendamentoIds, c \in CronExpressions : update_schedule("tA", id, c, {})
    \/ \E id \in AgendamentoIds, a \in BOOLEAN : update_schedule("tA", id, NoCron, {a})
    \/ Tick(MaxPassTime)

SpecPlan == Init /\ [][NextPlan]_vars


\* The orchestrator started and stopped, with the schedules of its tenants and
\* the clock.  The loop of start_scheduler is no step of it: lifespan creates
\* no task and nothing else calls start_scheduler.  The clock does not stop.
NextLive ==
    \/ lifespan_startup
    \/ lifespan_shutdown
    \/ Len(versoes) < 1 /\ create_version("tA", "p1", "1.0.0", TRUE)
    \/ Schedules(MaxSchedules, {"tA"}, {"p1"}, {"* * * * *", "*/2 * * * *"})
    \/ Tick(MaxPassTime)

SpecLive == Init /\ [][NextLive]_vars /\ WF_vars(Tick(MaxPassTime))


\* Both tenants on one store, each request made under either tenant and on the
\* rows of either.  A behaviour works one part of the store: the queue (items
\* on a queue name both tenants use), the ledger (versions, processes,
\* schedules, the executions the scheduler leaves and the items linked to
\* them: the versions come first, the schedules before the clock starts, the
\* requests on executions between two passes) or the agent registry.
QueuePart == versoes = <<>> /\ agendamentos = <<>> /\ agentes = <<>>

LedgerPart == agentes = <<>> /\ \A i \in ItemIds : items[i].execucao_id # 0

RegistryPart == items = <<>> /\ versoes = <<>> /\ agendamentos = <<>>

TenantQueue ==
    \/ Creates(MaxTenantItems, Tenants, {"NORMAL"}, {MaxRetriesInput}, {NoTime})
    \/ Claims({1}, Tenants, {"a1"})
    \/ Reports(MaxTenantItems, Tenants, {"business"}, MaxOtherExcecoes)

TenantLedger ==
    \/ \E t \in Tenants, p \in Processos :
          /\ agendamentos = <<>>
          /\ Len(versoes) < MaxTenantRows
          /\ create_version(t, p, "1.0.0", TRUE)
    \/ \E t \in Tenants, p \in Processos, id \in 1..MaxTenantRows :
          agendamentos = <<>> /\ activate_version(t, p, id)
    \/ \E t \in Tenants, p \in Processos :
          agendamentos = <<>> /\ trigger_manual_execution(t, p)
    \/ \E t \in Tenants, p \in Processos :
          /\ now = 0
          /\ Len(agendamentos) < MaxTenantRows
          /\ create_schedule(t, "* * * * *", p, TRUE)
    \/ agendamentos # <<>> /\ ~sched.running /\ Tick(MaxTime)
    \/ Scheduler(MaxTenantRows)
    \/ ~sched.running /\ LinkedCreates(MaxTenantRows, Tenants, {MaxRetriesInput})
    \/ ~sched.running /\ StatusUpdates(MaxTenantRows, Tenants, {COMPLETED})

TenantRegistry ==
    \/ \E t \in Tenants, n \in AgentNames :
          Len(agentes) < MaxTenantRows /\ create_agent(t, n, NoData)
    \/ Heartbeats(MaxTenantRows, Tenants, {ONLINE}, {NoData})
    \/ \E t \in Tenants, id \in 1..MaxTenantRows, n \in AgentNames :
          update_agent(t, id, n, NoStatus)
    \/ \E t \in Tenants, id \in 1..MaxTenantRows : delete_agent(t, id)
    \/ \E t \in Tenants, id \in 1..MaxTenantRows : read_agent(t, id)
    \/ \E t \in Tenants : list_agents(t, "none")

NextTenant ==
    \/ QueuePart /\ TenantQueue
    \/ LedgerPart /\ TenantLedger
    \/ RegistryPart /\ TenantRegistry

SpecTenant == Init /\ [][NextTenant]_vars

\* Processes soft-deleted between trigger requests and scheduler passes.
NextDelete ==
    \/ \E n \in VersionNames, a \in BOOLEAN :
        Len(versoes) < MaxVersions - 1 /\ create_version("tA", "p1", n, a)
    \/ \E t \in Tenants, p \in Processos : delete_process(t, p)
    \/ \E t \in Tenants, p \in Processos : trigger_manual_execution(t, p)
    \/ Schedules(MaxPlans, {"tA"}, {"p1"}, {"* * * * *"})
    \/ Scheduler(MaxLedgerExecucoes)
    \/ Tick(MaxPassTime)

SpecDelete == Init /\ [][NextDelete]_vars


\* ----------------------------------------------------------------- claims
OtherCandidates == Candidates(lastOp.tenant_id, lastOp.name) \ {lastOp.id}

\* C1 (SpecClaim): concurrent claims never hold or receive the same item: two
\* open claims have locked different rows, an item handed out was PENDING and
\* unheld, no item is handed out twice (no item of this specification is
\* requeued after a claim), and a claim returns none only when every matching
\* row is locked by another open claim.
MutualExclusion ==
    /\ \A c1, c2 \in Callers :
        c1 # c2 /\ pc[c1] = "locked" /\ pc[c2] = "locked" => sel[c1].item # sel[c2].item
    /\ lastOp.op = "claim" /\ lastOp.ret = "item" =>
        lastOp.pre.status = PENDING /\ lastOp.pre.locked_by = NoAgent
    /\ \A i \in ItemIds : items[i].retry_count <= 1
    /\ lastOp.op = "claim" /\ lastOp.ret = "none" =>
        \A j \in ItemIds :
            Matches(items[j], lastOp.tenant_id, lastOp.name) => rowLock[j] # 0

\* one eligible item, one caller has locked it and the other received none
MutualExclusionWitness ==
    /\ lastOp.op = "claim" /\ lastOp.ret = "none"
    /\ Cardinality({j \in ItemIds : Matches(items[j], lastOp.tenant_id, lastOp.name)}) = 1
    /\ \E c \in Callers :
        /\ pc[c] = "locked"
        /\ sel[c].tenant_id = lastOp.tenant_id
        /\ sel[c].queue_name = lastOp.name

\* the order of priorities the claim states: CRITICAL > HIGH > NORMAL > LOW
PriorityRank(p) ==
    CASE p = "LOW" -> 0 [] p = "NORMAL" -> 1 [] p = "HIGH" -> 2 [] p = "CRITICAL" -> 3

\* C2 (SpecOrder): the item a claim selects has the highest priority among the
\* eligible items of its tenant and queue.
ClaimReturnsHighestPriority ==
    lastOp.op = "select" =>
        \A j \in OtherCandidates :
            PriorityRank(items[j].priority) <= PriorityRank(items[lastOp.id].priority)

\* C3 (SpecOrder): the item a claim selects is no younger than any other
\* eligible item of its priority, and no older than any item of its priority
\* that an earlier claim returned.
FifoWithinPriority ==
    lastOp.op = "select" =>
        \A j \in ItemIds \ {lastOp.id} :
            /\ items[j].tenant_id = lastOp.tenant_id
            /\ items[j].queue_name = lastOp.name
            /\ items[j].priority = items[lastOp.id].priority
            => /\ j \in OtherCandidates =>
                    items[lastOp.id].created_at <= items[j].created_at
               /\ items[j].status = RUNNING =>
                    items[j].created_at <= items[lastOp.id].created_at

\* three items of one priority created at t1 < t2 < t3, the second is claimed
FifoWitness ==
    /\ lastOp.op = "select"
    /\ \E j, k \in ItemIds \ {lastOp.id} :
        /\ items[j].priority = items[lastOp.id].priority
        /\ items[k].priority = items[lastOp.id].priority
        /\ items[j].status = RUNNING
        /\ items[j].created_at < items[lastOp.id].created_at
        /\ k \in OtherCandidates
        /\ items[lastOp.id].created_at < items[k].created_at

\* C4 (Spec): an item still RUNNING once its lease duration has elapsed is
\* eligible for the next claim on its queue.
LeaseRecovery ==
    \A i \in ItemIds :
        /\ items[i].status = RUNNING
        /\ rowLock[i] = 0
        /\ now >= items[i].locked_at + LeaseDuration
        => i \in Candidates(items[i].tenant_id, items[i].queue_name)

\* C5 (Spec): fail with kind SYSTEM on an item with retry_count < max_retries
\* adds one to retry_count, stores status RETRY, sets deferred_until after now
\* and clears the lease holder.
RetryStep ==
    /\ lastOp.op = "fail"
    /\ lastOp.tipo = SYSTEM
    /\ lastOp.pre.status # "none"
    /\ lastOp.pre.retry_count < lastOp.pre.max_retries
    => /\ items[lastOp.id].retry_count = lastOp.pre.retry_count + 1
       /\ items[lastOp.id].status = RETRY
       /\ items[lastOp.id].deferred_until > now
       /\ items[lastOp.id].locked_by = NoAgent

\* C6 (SpecRetry): of an item that is only claimed and failed with kind SYSTEM, the
\* first max_retries failures requeue it, the next one makes it FAILED, and no
\* claim hands out an item whose retry_count exceeds max_retries.
RetryExhaustion ==
    /\ \A i \in ItemIds :
        fails[i] >= 0 =>
            /\ fails[i] <= items[i].max_retries + 1
            /\ fails[i] = items[i].max_retries + 1 =>
                items[i].status = FAILED /\ items[i].retry_count = fails[i]
            /\ (lastOp.op = "fail" /\ lastOp.id = i /\ lastOp.pre.status = RUNNING
                    /\ fails[i] \in 1..items[i].max_retries) =>
                items[i].status = PENDING /\ lastOp.ret = RETRY
    /\ \A i \in ItemIds :
        items[i].retry_count > items[i].max_retries => items[i].status # PENDING
    /\ lastOp.op = "claim" /\ lastOp.ret = "item" =>
        lastOp.pre.retry_count <= lastOp.pre.max_retries

\* an item with max_retries >= 1 has been requeued max_retries times and then failed
RetryExhaustionWitness ==
    \E i \in ItemIds :
        /\ items[i].max_retries >= 1
        /\ fails[i] = items[i].max_retries + 1
        /\ items[i].status = FAILED
        /\ lastOp.op = "fail" /\ lastOp.id = i /\ lastOp.pre.status = RUNNING

\* C7 (Spec): fail with a kind other than SYSTEM makes the item FAILED and
\* clears its lease holder.
NonRetryableFailure ==
    /\ lastOp.op = "fail"
    /\ lastOp.tipo # SYSTEM
    /\ lastOp.pre.status # "none"
    => /\ items[lastOp.id].status = FAILED
       /\ items[lastOp.id].locked_by = NoAgent

\* C8 (SpecDefer): no claim selects an item whose deferred_until is later
\* than the current time.
DeferralRespected ==
    lastOp.op = "select" => ~(items[lastOp.id].deferred_until > now)

\* C9 (Spec): complete on an absent item or on an item that is COMPLETED or
\* FAILED changes no field of the item.
CompleteIsNoOpOnTerminal ==
    /\ lastOp.op = "complete"
    /\ lastOp.pre.status \in {COMPLETED, FAILED}
    => items[lastOp.id] = lastOp.pre

\* C10 (SpecVersion): after a successful activation on a process that had
\* another active version, the activated version is the only active one.
SingleActiveAfterActivation ==
    lastOp.op = "activate" /\ lastOp.ret = "ok" /\ lastOp.prev # 0 =>
        ActiveVersions(lastOp.name) = {lastOp.id}

\* v2 was activated while v1 was active
SingleActiveWitness ==
    /\ lastOp.op = "activate" /\ lastOp.ret = "ok"
    /\ lastOp.prev # 0 /\ lastOp.prev # lastOp.id
    /\ ~versoes[lastOp.prev].is_active
    /\ versoes[lastOp.id].is_active

\* C11 (SpecActivate): in every committed state no process has two versions
\* with is_active = TRUE, whatever the interleaving of the activation requests.
ActivationAtomic == \A p \in Processos : Cardinality(ActiveVersions(p)) <= 1

\* once a process has an active version, every commit leaves it one
NeverZeroActive ==
    [][\A p \in Processos : ActiveVersions(p) # {} =>
            {v \in 1..Len(versoes') : versoes'[v].processo_id = p /\ versoes'[v].is_active} # {}]_vars
\* C12 (SpecLedger): an execution that is COMPLETED or FAILED has no linked
\* queue item that is PENDING or RUNNING.
ExecutionItemConsistency ==
    \A e \in ExecucaoIds, i \in ItemIds :
        (items[i].execucao_id = e /\ execucoes[e].status \in {COMPLETED, FAILED})
            => items[i].status \notin {PENDING, RUNNING}

\* the transitions of the ledger
ValidTransitions ==
    {<<QUEUED, RUNNING>>, <<RUNNING, COMPLETED>>, <<RUNNING, FAILED>>,
     <<RUNNING, CANCELLED>>, <<RUNNING, TIMEOUT>>}

\* C13 (SpecLedger): an update of the status of an execution either leaves
\* the status as it was or moves it along QUEUED to RUNNING or RUNNING to
\* COMPLETED, FAILED, CANCELLED or TIMEOUT.
ExecutionStateMachine ==
    lastOp.op = "update_status" /\ lastOp.ret = "ok" =>
        \/ execucoes[lastOp.id].status = lastOp.name
        \/ <<lastOp.name, execucoes[lastOp.id].status>> \in ValidTransitions
\* C14 (SpecSchedule): every committed execution has a linked queue item.
ExecutionHasQueueItem ==
    \A e \in ExecucaoIds : \E i \in ItemIds : items[i].execucao_id = e

\* the process exists for the tenant, is active and has an active version
Triggerable(t, p) ==
    /\ \E x \in Processos : x = p /\ ProcessoTenant(x) = t
    /\ processos[p].is_active
    /\ ActiveVersions(p) # {}

\* C15 (SpecTrigger): a trigger of a process that is absent for the tenant
\* ends with NotFoundError, a trigger of a process that is inactive or has no
\* active version ends with a business-rule error, and neither creates an
\* execution or an item; any other trigger creates one QUEUED execution bound
\* to the active version and one PENDING item linked to it in the queue named
\* after the process.
TriggerPreconditions ==
    lastOp.op = "trigger" =>
        IF ~\E x \in Processos : x = lastOp.name /\ ProcessoTenant(x) = lastOp.tenant_id
        THEN /\ lastOp.ret = "NotFoundError"
             /\ Len(execucoes) = lastOp.prev /\ Len(items) = lastOp.id
        ELSE IF ~Triggerable(lastOp.tenant_id, lastOp.name)
        THEN /\ lastOp.ret = "BusinessError"
             /\ Len(execucoes) = lastOp.prev /\ Len(items) = lastOp.id
        ELSE /\ Len(execucoes) = lastOp.prev + 1
             /\ Len(items) = lastOp.id + 1
             /\ execucoes[Len(execucoes)].status = QUEUED
             /\ execucoes[Len(execucoes)].versao_id \in ActiveVersions(lastOp.name)
             /\ items[Len(items)].status = PENDING
             /\ items[Len(items)].queue_name = lastOp.name
             /\ items[Len(items)].execucao_id = Len(execucoes)

\* C16 (SpecLedger): after a claim returned an item that is linked to an
\* execution, the item is RUNNING and held by the claiming agent and the
\* execution is RUNNING.
ClaimStartsExecution ==
    (lastOp.op = "claim" /\ lastOp.ret = "item" /\ lastOp.pre.execucao_id # 0) =>
        /\ items[lastOp.id].status = RUNNING
        /\ items[lastOp.id].locked_by = lastOp.agent_id
        /\ execucoes[lastOp.pre.execucao_id].status = RUNNING

\* C17 (SpecRun): when a process with an activated version is triggered and an
\* agent then claims on the queue named after the process, the claim returns
\* an item: it never finds the queue empty.
EndToEndRun ==
    [][(/\ lastOp.op = "trigger"
        /\ Triggerable(lastOp.tenant_id, lastOp.name)
        /\ lastOp'.op = "claim"
        /\ lastOp'.tenant_id = lastOp.tenant_id
        /\ lastOp'.name = lastOp.name)
       => lastOp'.ret # "none"]_vars
\* C18 (SpecSchedule): when the processing of a due schedule raised, its
\* next_run is later than it was before the pass and later than the time the
\* pass read, so the schedule is not due at that time any more.
NextRunAdvancedOnFailure ==
    (lastOp.op = "schedule" /\ lastOp.ret # "ok") =>
        /\ agendamentos[lastOp.id].next_run > lastOp.prev
        /\ agendamentos[lastOp.id].next_run > sched.time

\* C19 (SpecSchedule): a pass does not select a schedule whose cron
\* expression cannot be parsed and whose processing failed in the pass before.
NoSpinOnUnparseable ==
    [][(lastOp'.op = "pass" /\ lastOp'.ret = "due") =>
        \A s \in sched'.seen :
            ~(s \in sched.failed /\ ~Parseable(agendamentos[s].cron_expression))]_vars

\* C20 (SpecSchedule): at the end of a pass _trigger_and_update has been
\* called for every schedule the pass selected, whichever of them failed, and
\* every one of them whose cron expression parses has a next_run later than
\* the time the pass read.
FailureIsolation ==
    (lastOp.op = "schedule" /\ ~sched.running) =>
        \A s \in sched.seen :
            /\ s \in sched.done
            /\ Parseable(agendamentos[s].cron_expression) =>
                    agendamentos[s].next_run > sched.time

\* a pass over two schedules has ended: the trigger of one raised before it
\* created anything, the other one was still processed: its trigger added an
\* execution and its next_run was advanced
FailureIsolationWitness ==
    /\ lastOp.op = "schedule" /\ ~sched.running
    /\ \E s1, s2 \in sched.seen :
        /\ s1 # s2
        /\ s1 \in sched.failed
        /\ TriggerResult(agendamentos[s1].tenant_id, agendamentos[s1].process_id)
                \in {"NotFoundError", "BusinessError"}
        /\ s2 \in sched.done
        /\ agendamentos[s2].next_run > sched.time
        /\ \E e \in ExecucaoIds : execucoes[e].processo_id = agendamentos[s2].process_id

\* C21 (SpecSchedule): when a pass has processed a due schedule bound to a
\* triggerable process, there is an execution of that process with trigger
\* origin CRON, a PENDING queue item linked to it, last_run is the time of
\* the pass and next_run is later than the time of the pass.
SchedulerSuccessStep ==
    (/\ lastOp.op = "schedule"
     /\ Triggerable(lastOp.tenant_id, lastOp.name)
     /\ Parseable(lastOp.tipo)) =>
        /\ \E e \in ExecucaoIds :
            /\ execucoes[e].processo_id = lastOp.name
            /\ execucoes[e].trigger_type = CRON
            /\ \E i \in ItemIds : items[i].execucao_id = e /\ items[i].status = PENDING
        /\ agendamentos[lastOp.id].last_run # NoTime
        /\ agendamentos[lastOp.id].last_run >= sched.time
        /\ agendamentos[lastOp.id].next_run > sched.time

\* C23 (SpecRegister): the non-deleted agents of one tenant have distinct
\* names after every step of register, rename and delete, however the requests
\* interleave; a register or rename goes through only when no other
\* non-deleted agent of the tenant has the name, and one that fails with
\* ConflictError leaves the registry as it was.
DistinctNames(rows) ==
    \A a, b \in 1..Len(rows) :
        (/\ a # b
         /\ rows[a].tenant_id = rows[b].tenant_id
         /\ rows[a].deleted_at = NoTime
         /\ rows[b].deleted_at = NoTime) => rows[a].name # rows[b].name

HeartbeatEffect ==
    [][lastOp'.op = "heartbeat" =>
        IF get_agent(lastOp'.tenant_id, lastOp'.id) # {}
        THEN /\ lastOp'.ret = "ok"
             /\ agentes' = [agentes EXCEPT
                              ![lastOp'.id].last_heartbeat = now,
                              ![lastOp'.id].status = lastOp'.tipo,
                              ![lastOp'.id].extra_data = Merged(@, lastOp'.pre)]
        ELSE /\ lastOp'.ret = "NotFoundError"
             /\ agentes' = agentes]_vars

\* C25 (SpecOnline): every body of the agents API reports is_online for an
\* agent exactly when its status is not MAINTENANCE and its last heartbeat is
\* less than 5 minutes old (never for an agent without a heartbeat), and the
\* list filtered by is_online returns exactly the agents that are, or are not,
\* online in that sense.
isOnline(ag, t) ==
    /\ ag.status # MAINTENANCE
    /\ ag.last_heartbeat # NoTime
    /\ t - ag.last_heartbeat < OnlineWindow

IsOnlineEverywhere ==
    /\ lastOp.op \in {"create_agent", "update_agent", "heartbeat", "read_agent", "list_agents"} =>
          \A a \in resp.ids : a \in resp.online <=> isOnline(agentes[a], now)
    /\ (lastOp.op = "list_agents" /\ lastOp.tipo = "true") =>
          resp.ids = {a \in Listed(lastOp.tenant_id, "none") : isOnline(agentes[a], now)}
    /\ (lastOp.op = "list_agents" /\ lastOp.tipo = "false") =>
          resp.ids = {a \in Listed(lastOp.tenant_id, "none") : ~isOnline(agentes[a], now)}

\* C26 (SpecRemoval): delete_agent marks the agent deleted and leaves it with
\* status OFFLINE; no body of a later get or list holds a deleted agent, and
\* get, update, heartbeat and delete on a deleted agent fail with
\* NotFoundError.
AgentRemoval ==
    [][/\ (lastOp'.op = "delete_agent" /\ lastOp'.ret = "ok") =>
              /\ agentes'[lastOp'.id].deleted_at # NoTime
              /\ agentes'[lastOp'.id].status = OFFLINE
       /\ (/\ lastOp'.op \in {"read_agent", "update_agent", "heartbeat", "delete_agent"}
           /\ lastOp'.id \in AgenteIds
           /\ agentes[lastOp'.id].deleted_at # NoTime) => lastOp'.ret = "NotFoundError"
       /\ \A a \in resp'.ids : agentes'[a].deleted_at = NoTime]_vars

\* C27 (SpecControl): after a stop request on an execution of the tenant was
\* answered with true, the stored execution carries the request (the row has
\* no stop flag, so its status is CANCELLED).
StopRecorded ==
    (/\ lastOp.op = "stop"
     /\ lastOp.ret = "true"
     /\ FindExecucao(lastOp.tenant_id, lastOp.id) # {}) =>
        execucoes[lastOp.id].status = CANCELLED

\* C30 (SpecControl): a status report that puts an execution in RUNNING leaves
\* it with a start time, and every execution in COMPLETED, FAILED, CANCELLED or
\* TIMEOUT has an end time.
ExecutionTimestamps ==
    /\ (lastOp.op = "update_status" /\ lastOp.ret = "ok" /\ lastOp.tipo = RUNNING) =>
          execucoes[lastOp.id].start_time # NoTime
    /\ \A e \in ExecucaoIds :
          execucoes[e].status \in {COMPLETED, FAILED, CANCELLED, TIMEOUT} =>
              execucoes[e].end_time # NoTime

\* C29 (SpecPlan): every active schedule has a next_run, and right after a
\* schedule was created or updated an active one has a next_run that is later
\* than now and is a firing time of its cron expression.
FiringTime(c, t) == Parseable(c) /\ t % CronPeriod(c) = 0

ActiveScheduleHasNextRun ==
    /\ \A s \in AgendamentoIds :
          agendamentos[s].is_active => agendamentos[s].next_run # NoTime
    /\ (/\ lastOp.op \in {"create_schedule", "update_schedule"}
        /\ agendamentos[lastOp.id].is_active) =>
          /\ agendamentos[lastOp.id].next_run > now
          /\ FiringTime(agendamentos[lastOp.id].cron_expression,
                        agendamentos[lastOp.id].next_run)

\* C28 (SpecLive): while the orchestrator runs, every active schedule with a
\* bound process and next_run <= now is eventually processed by a pass of the
\* scheduler (or the orchestrator stops, or the schedule stops being due).
SchedulerLiveness ==
    \A s \in 1..MaxSchedules :
        (app.running /\ s \in Due(now)) ~>
            (~app.running \/ s \in sched.done \/ s \notin Due(now))

\* C22 (SpecTenant): a step made under one tenant leaves every agent, process,
\* version, execution and queue item of the other tenant as it was and adds
\* rows of its own tenant only; a claim locks and returns an item of its own
\* tenant; the bodies of the agents API hold agents of the tenant only; and a
\* request that names a row of the other tenant by id is answered as if the
\* row did not exist.
Kept(rows, after, t) ==
    /\ Len(after) >= Len(rows)
    /\ \A i \in 1..Len(rows) : rows[i].tenant_id # t => after[i] = rows[i]
    /\ \A i \in (Len(rows) + 1)..Len(after) : after[i].tenant_id = t

Foreign(rows, t, id) == id \in 1..Len(rows) /\ rows[id].tenant_id # t

SoftDeletedInvisible ==
    [][(/\ lastOp'.op \in {"trigger", "schedule"}
        /\ lastOp'.name \in Processos
        /\ processos[lastOp'.name].deleted_at # NoTime)
       => (/\ lastOp'.ret = "NotFoundError"
           /\ execucoes' = execucoes
           /\ items' = items)]_vars

\* C32: a fail call on an item that exists for the tenant, whether it ends in
\* retry or in FAILED, adds exactly one exception record linked to the item;
\* a fail call on an item that does not exist for the tenant adds no record
\* and changes no item; no step changes or removes an earlier record
ExceptionLogAppendOnly ==
    [][/\ Len(excecoes') >= Len(excecoes)
       /\ \A k \in 1..Len(excecoes) : excecoes'[k] = excecoes[k]
       /\ lastOp'.op # "fail" => Len(excecoes') = Len(excecoes)
       /\ lastOp'.op = "fail" =>
            IF \E i \in ItemIds : i = lastOp'.id /\ items[i].tenant_id = lastOp'.tenant_id
            THEN /\ Len(excecoes') = Len(excecoes) + 1
                 /\ excecoes'[Len(excecoes')].item_fila_id = lastOp'.id
                 /\ excecoes'[Len(excecoes')].tenant_id = lastOp'.tenant_id
                 /\ excecoes'[Len(excecoes')].tipo = lastOp'.tipo
                 /\ lastOp'.ret \in {RETRY, FAILED}
            ELSE /\ excecoes' = excecoes
                 /\ items' = items]_vars

\* a third report on one item, the one that exhausts its retries, with the
\* records of the two retries before it in the log
ExceptionLogWitness ==
    /\ lastOp.op = "fail"
    /\ lastOp.ret = FAILED
    /\ lastOp.pre # NoItem
    /\ lastOp.pre.retry_count > lastOp.pre.max_retries
    /\ Len(excecoes) = 3
    /\ \A k \in 1..3 : excecoes[k].item_fila_id = lastOp.id /\ excecoes[k].tipo = SYSTEM

\* C33: once a queue item is COMPLETED or FAILED, no claim, complete, fail or
\* status update changes its status (so it is never PENDING, and claimable,
\* again)
TerminalAbsorbing ==
    [][\A i \in ItemIds :
        items[i].status \in {COMPLETED, FAILED} => items'[i].status = items[i].status]_vars

\* C34: in every reachable state a queue item has a lease holder (locked_by
\* set) if and only if its status is RUNNING
LeaseStatusAgree ==
    \A i \in ItemIds : (items[i].locked_by # NoAgent) <=> (items[i].status = RUNNING)

\* C35: once a process has an active version, every later step (a version
\* created, active or not, or a version activated) leaves the process with
\* exactly one version with is_active = TRUE; the step that makes the first
\* version active leaves exactly one too
KeepsOneActiveVersion ==
    [][\A p \in Processos :
        LET after == {v \in 1..Len(versoes') :
                        versoes'[v].processo_id = p /\ versoes'[v].is_active}
        IN  (ActiveVersions(p) # {} \/ after # {}) => Cardinality(after) = 1]_vars

\* a version created with is_active = TRUE while another version of the
\* process was active: the new one is the active version, the other is not
KeepsOneActiveWitness ==
    /\ lastOp.op = "create_version"
    /\ lastOp.prev # 0
    /\ versoes[lastOp.id].is_active
    /\ ~versoes[lastOp.prev].is_active
    /\ ActiveVersions(lastOp.name) = {lastOp.id}

\* C36: on every queue state the get-next endpoint selects the item that
\* get_next_item would select and leaves it as get_next_item would: RUNNING,
\* with a lease holder, and with retry_count incremented by one
ClaimPathsEquivalent ==
    [][lastOp'.op = "api_claim" =>
        IF Candidates(lastOp'.tenant_id, lastOp'.name) = {}
        THEN lastOp'.ret = "none" /\ items' = items
        ELSE /\ lastOp'.id \in FirstRows(lastOp'.tenant_id, lastOp'.name)
             /\ items'[lastOp'.id].status = RUNNING
             /\ items'[lastOp'.id].locked_by # NoAgent
             /\ items'[lastOp'.id].retry_count = items[lastOp'.id].retry_count + 1]_vars

\* C37: under claim, complete and fail of WorkloadService an item's
\* retry_count never decreases and never exceeds max_retries + 1; only a
\* claim changes it, by one, so an item is claimed at most max_retries + 1
\* times
RetryCountBounded ==
    [][\A i \in ItemIds :
        /\ items'[i].retry_count >= items[i].retry_count
        /\ items'[i].retry_count <= items'[i].max_retries + 1
        /\ items'[i].retry_count # items[i].retry_count =>
            /\ lastOp'.op = "claim" /\ lastOp'.id = i
            /\ items'[i].retry_count = items[i].retry_count + 1]_vars

\* the last claim an item with max_retries >= 1 can get: it was requeued
\* max_retries times and its retry_count is now max_retries + 1
RetryCountBoundedWitness ==
    /\ lastOp.op = "claim" /\ lastOp.ret = "item"
    /\ items[lastOp.id].max_retries >= 1
    /\ items[lastOp.id].retry_count = items[lastOp.id].max_retries + 1
    /\ Len(excecoes) >= items[lastOp.id].max_retries

\* C38: the worker never has two runs started at once, and for every item it
\* receives from polling it eventually has sent a result report for the
\* item's execution and has current_execution back at none
WorkerReturnsToIdle ==
    /\ [](Cardinality({x \in ExecIds : worker.runners[x].phase = "started"}) <= 1)
    /\ \A x \in ExecIds :
        (lastOp.op = "poll" /\ lastOp.ret = "item" /\ lastOp.id = x)
            ~> (/\ worker.current = NoTask
                /\ \E k \in 1..Len(worker.sent) : worker.sent[k].execution_id = x)

\* C39: a tenant's queue never holds two items with the same reference that
\* are both PENDING or RUNNING
ReferenceUnique ==
    \A i, j \in 1..Len(items) :
        (/\ i # j
         /\ items[i].reference # NoRef
         /\ items[i].reference = items[j].reference
         /\ items[i].tenant_id = items[j].tenant_id
         /\ items[i].queue_name = items[j].queue_name
         /\ items[i].status \in {PENDING, RUNNING})
        => items[j].status \notin {PENDING, RUNNING}

====
